---- MODULE Spec2Model ----
(***************************************************************************)
(* Live-Fact-Checking-Assistant: the background service worker's           *)
(* verification pipeline (verifyText), the sliding-window rate limiter,    *)
(* the Tavily search wrapper, the evidence verifier and the verdict        *)
(* engine.                                                                 *)
(*                                                                         *)
(* Numbers: authority, consensus and confidence are kept exact.            *)
(* Authority and confidence are integers in hundredths (0.95 -> 95), the   *)
(* consensus score is the pair (weightedSupport - weightedContradict,      *)
(* totalWeight) and every comparison with a threshold is done by           *)
(* cross-multiplication.  Time is Date.now() in milliseconds.              *)
(***************************************************************************)
EXTENDS Integers, Sequences, FiniteSets, TLC

\* state of the verification pipeline (background service worker)
VARIABLES
    now,            \* Date.now(), ms
    ticks,          \* clock advances so far
    requests,       \* rateLimiter state.requests
    apiKey,         \* chrome.storage.local tavilyApiKey ("" when unset)
    pc,             \* position of the verifyText run: "idle", "loop", "search"
    runApiKey,      \* verifyText: const apiKey
    allClaims,      \* verifyText: allClaims
    idx,            \* verifyText: index of the current claim in factualClaims
    verdicts,       \* verifyText: verdicts
    queryIdx,       \* searchForEvidence: index of the query being awaited
    allResults,     \* searchForEvidence: allResults
    result,         \* the response verifyText sent in the last step, if any
    outages,        \* provider outages met by the run
    searchLog,      \* times of the run's executeTavilySearch calls of the last window
    statusLog,      \* per verdict of the run: a search call for its claim got 401
    authRejected    \* a call for the current claim got 401

\* state of the stance-detection and verdict-engine harnesses (SpecStance,
\* SpecVerdict); the pipeline leaves it alone
VARIABLES
    stClaim,        \* detectStance: the claim text
    stNegated,      \* the same claim with a negation word added
    stContent,      \* detectStance: the content
    stStance,       \* detectStance(stClaim, stContent), "" before the call
    stNegStance,    \* detectStance(stNegated, stContent), "" before the call
    veItems,        \* the evidence list given to aggregateEvidence
    veEvidence,     \* the AggregatedEvidence
    veLabel,        \* determineVerdictLabel(veEvidence), "" before the call
    veVerdict,      \* generateVerdict(claim, veEvidence), <<>> before the call
    veAfter,        \* the object given to generateVerdict, after the call
    veVerdictLater, \* generateVerdict of the same arguments, called again
    vePc            \* "items", "aggregated", "labelled", "verdict", "again"

\* the verification cache (utils/cache.ts) and the state of its harness
\* (SpecCache)
VARIABLES
    cache,          \* chrome.storage.local factCheckerCache: verifications, maxAge
    caNow,          \* Date.now() of the cache harness, ms
    caTicks,        \* advances of caNow so far
    caCalls,        \* cacheVerification calls made with a chosen claim
    caFresh,        \* cacheVerification calls made with a numbered claim
    caLookup        \* the last getCachedVerdict call: text, time, what it returned

\* state of the harnesses of single functions (SpecExtract, SpecAuthority,
\* SpecRank) and of the concurrent runs (SpecConcurrent)
VARIABLES
    ex,             \* claimExtractor: the text, its classification, its atomic claims
    au,             \* calculateAuthority: the URL and its score
    rk,             \* rankEvidence: the evidence list and the ranked list
    runs            \* the verifyText runs in flight: position, claims left


\* ------------------------------------------------------------------------
\* Bounds of the model
\* ------------------------------------------------------------------------
MaxSentences == 2      \* sentences of a text built from SENTENCES
MaxRepeats == 4        \* sentences of the text that repeats one statement
MaxTicks == 2          \* observed advances of the clock
MaxOutages == 1        \* outages of the search provider within a run
MaxEvidence == 4       \* items of an evidence list of the verdict harness
MaxCacheCalls == 2     \* cacheVerification calls with a claim of CACHE_CLAIMS
MaxCacheTicks == 2     \* advances of the clock of the cache harness
MaxOverflow == 1       \* numbered claims stored beyond MAX_CACHE_SIZE
MaxRecords == 11       \* requests held by the rate limiter of the limiter harness
MaxLimiterTicks == 3   \* advances of the clock of the limiter harness

\* ------------------------------------------------------------------------
\* Generic helpers
\* ------------------------------------------------------------------------
Range(s) == {s[i] : i \in DOMAIN s}

Min2(a, b) == IF a <= b THEN a ELSE b
Max2(a, b) == IF a >= b THEN a ELSE b
Abs(x) == IF x < 0 THEN -x ELSE x

MinOfSet(S) == CHOOSE x \in S : \A y \in S : x <= y

\* ceil(a / b) for a >= 0, b > 0 (Math.ceil of a non-negative quotient)
CeilDiv(a, b) == (a + b - 1) \div b

\* ------------------------------------------------------------------------
\* Text: a string is a sequence of characters (one-character strings) where
\* the code looks inside it (hostnames), and a sequence of lower-cased
\* tokens (words, numbers, punctuation marks) where the code matches words.
\* ------------------------------------------------------------------------

\* s.includes(d) on character sequences
Includes(s, d) ==
    \E i \in 1..(Len(s) - Len(d) + 1) : SubSeq(s, i, i + Len(d) - 1) = d

\* s.endsWith(d)
EndsWith(s, d) ==
    Len(d) <= Len(s) /\ SubSeq(s, Len(s) - Len(d) + 1, Len(s)) = d

\* ------------------------------------------------------------------------
\* Authority scoring (verifier.ts)
\* ------------------------------------------------------------------------
\* AUTHORITY_TIERS[1].domains, score 0.95
TIER1_DOMAINS ==
    << <<".","g","o","v">>,
       <<".","e","d","u">>,
       <<".","m","i","l">>,
       <<"s","n","o","p","e","s",".","c","o","m">>,
       <<"p","o","l","i","t","i","f","a","c","t",".","c","o","m">>,
       <<"f","a","c","t","c","h","e","c","k",".","o","r","g">>,
       <<"f","u","l","l","f","a","c","t",".","o","r","g">>,
       <<"a","f","r","i","c","a","c","h","e","c","k",".","o","r","g">>,
       <<"c","h","e","q","u","e","a","d","o",".","c","o","m">>,
       <<"v","e","r","i","f","i","c","a","t",".","c","a","t">>,
       <<"r","e","u","t","e","r","s",".","c","o","m">>,
       <<"a","p","n","e","w","s",".","c","o","m">>,
       <<"a","f","p",".","c","o","m">>,
       <<"n","a","t","u","r","e",".","c","o","m">>,
       <<"s","c","i","e","n","c","e",".","o","r","g">>,
       <<"t","h","e","l","a","n","c","e","t",".","c","o","m">>,
       <<"n","e","j","m",".","o","r","g">>,
       <<"w","h","o",".","i","n","t">>,
       <<"c","d","c",".","g","o","v">>,
       <<"n","i","h",".","g","o","v">>,
       <<"p","u","b","m","e","d",".","n","c","b","i",".","n","l","m",".","n","i","h",".","g","o","v">> >>

\* AUTHORITY_TIERS[2].domains, score 0.85
TIER2_DOMAINS ==
    << <<"n","y","t","i","m","e","s",".","c","o","m">>,
       <<"w","a","s","h","i","n","g","t","o","n","p","o","s","t",".","c","o","m">>,
       <<"w","s","j",".","c","o","m">>,
       <<"b","b","c",".","c","o","m">>,
       <<"b","b","c",".","c","o",".","u","k">>,
       <<"t","h","e","g","u","a","r","d","i","a","n",".","c","o","m">>,
       <<"e","c","o","n","o","m","i","s","t",".","c","o","m">>,
       <<"n","p","r",".","o","r","g">>,
       <<"p","b","s",".","o","r","g">>,
       <<"c","-","s","p","a","n",".","o","r","g">>,
       <<"p","r","o","p","u","b","l","i","c","a",".","o","r","g">>,
       <<"t","h","e","a","t","l","a","n","t","i","c",".","c","o","m">>,
       <<"n","e","w","y","o","r","k","e","r",".","c","o","m">>,
       <<"f","t",".","c","o","m">>,
       <<"b","l","o","o","m","b","e","r","g",".","c","o","m">>,
       <<"p","o","l","i","t","i","c","o",".","c","o","m">>,
       <<"d","w",".","c","o","m">>,
       <<"f","r","a","n","c","e","2","4",".","c","o","m">>,
       <<"a","l","j","a","z","e","e","r","a",".","c","o","m">>,
       <<"s","c","m","p",".","c","o","m">>,
       <<"a","b","c",".","n","e","t",".","a","u">>,
       <<"c","b","c",".","c","a">>,
       <<"g","l","o","b","a","l","n","e","w","s",".","c","a">> >>

\* AUTHORITY_TIERS[3].domains, score 0.75
TIER3_DOMAINS ==
    << <<"c","n","n",".","c","o","m">>,
       <<"u","s","a","t","o","d","a","y",".","c","o","m">>,
       <<"l","a","t","i","m","e","s",".","c","o","m">>,
       <<"c","h","i","c","a","g","o","t","r","i","b","u","n","e",".","c","o","m">>,
       <<"n","b","c","n","e","w","s",".","c","o","m">>,
       <<"c","b","s","n","e","w","s",".","c","o","m">>,
       <<"a","b","c","n","e","w","s",".","g","o",".","c","o","m">>,
       <<"t","i","m","e",".","c","o","m">>,
       <<"f","o","r","b","e","s",".","c","o","m">>,
       <<"b","u","s","i","n","e","s","s","i","n","s","i","d","e","r",".","c","o","m">>,
       <<"f","o","r","t","u","n","e",".","c","o","m">>,
       <<"n","e","w","s","w","e","e","k",".","c","o","m">>,
       <<"t","h","e","h","i","l","l",".","c","o","m">>,
       <<"a","x","i","o","s",".","c","o","m">>,
       <<"v","o","x",".","c","o","m">>,
       <<"s","l","a","t","e",".","c","o","m">>,
       <<"s","a","l","o","n",".","c","o","m">>,
       <<"t","h","e","d","a","i","l","y","b","e","a","s","t",".","c","o","m">>,
       <<"w","i","r","e","d",".","c","o","m">>,
       <<"a","r","s","t","e","c","h","n","i","c","a",".","c","o","m">>,
       <<"t","h","e","v","e","r","g","e",".","c","o","m">>,
       <<"t","e","c","h","c","r","u","n","c","h",".","c","o","m">>,
       <<"e","s","p","n",".","c","o","m">>,
       <<"s","p","o","r","t","s",".","y","a","h","o","o",".","c","o","m">>,
       <<"b","o","s","t","o","n","g","l","o","b","e",".","c","o","m">>,
       <<"s","f","c","h","r","o","n","i","c","l","e",".","c","o","m">>,
       <<"d","a","l","l","a","s","n","e","w","s",".","c","o","m">>,
       <<"s","e","a","t","t","l","e","t","i","m","e","s",".","c","o","m">>,
       <<"d","e","n","v","e","r","p","o","s","t",".","c","o","m">>,
       <<"m","i","a","m","i","h","e","r","a","l","d",".","c","o","m">> >>

\* AUTHORITY_TIERS[4].domains, score 0.70
TIER4_DOMAINS ==
    << <<"w","i","k","i","p","e","d","i","a",".","o","r","g">>,
       <<"b","r","i","t","a","n","n","i","c","a",".","c","o","m">>,
       <<"e","n","c","y","c","l","o","p","e","d","i","a",".","c","o","m">>,
       <<"m","e","r","r","i","a","m","-","w","e","b","s","t","e","r",".","c","o","m">>,
       <<"d","i","c","t","i","o","n","a","r","y",".","c","o","m">>,
       <<"o","x","f","o","r","d","d","i","c","t","i","o","n","a","r","i","e","s",".","c","o","m">>,
       <<"i","n","v","e","s","t","o","p","e","d","i","a",".","c","o","m">>,
       <<"w","e","b","m","d",".","c","o","m">>,
       <<"m","a","y","o","c","l","i","n","i","c",".","o","r","g">>,
       <<"h","e","a","l","t","h","l","i","n","e",".","c","o","m">>,
       <<"h","i","s","t","o","r","y",".","c","o","m">>,
       <<"b","i","o","g","r","a","p","h","y",".","c","o","m">>,
       <<"i","m","d","b",".","c","o","m">>,
       <<"s","t","a","t","i","s","t","a",".","c","o","m">>,
       <<"w","o","r","l","d","b","a","n","k",".","o","r","g">>,
       <<"d","a","t","a",".","g","o","v">> >>

\* AUTHORITY_TIERS[5].domains, score 0.50
TIER5_DOMAINS ==
    << <<".","c","o","m">>,
       <<".","o","r","g">>,
       <<".","n","e","t">>,
       <<".","i","o">> >>

\* LOW_AUTHORITY_DOMAINS
LOW_AUTHORITY_DOMAINS ==
    << <<"t","w","i","t","t","e","r",".","c","o","m">>,
       <<"x",".","c","o","m">>,
       <<"f","a","c","e","b","o","o","k",".","c","o","m">>,
       <<"i","n","s","t","a","g","r","a","m",".","c","o","m">>,
       <<"t","h","r","e","a","d","s",".","n","e","t">>,
       <<"r","e","d","d","i","t",".","c","o","m">>,
       <<"t","i","k","t","o","k",".","c","o","m">>,
       <<"s","n","a","p","c","h","a","t",".","c","o","m">>,
       <<"p","i","n","t","e","r","e","s","t",".","c","o","m">>,
       <<"l","i","n","k","e","d","i","n",".","c","o","m">>,
       <<"t","u","m","b","l","r",".","c","o","m">>,
       <<"d","i","s","c","o","r","d",".","c","o","m">>,
       <<"y","o","u","t","u","b","e",".","c","o","m">>,
       <<"t","w","i","t","c","h",".","t","v">>,
       <<"v","i","m","e","o",".","c","o","m">>,
       <<"d","a","i","l","y","m","o","t","i","o","n",".","c","o","m">>,
       <<"m","e","d","i","u","m",".","c","o","m">>,
       <<"s","u","b","s","t","a","c","k",".","c","o","m">>,
       <<"w","o","r","d","p","r","e","s","s",".","c","o","m">>,
       <<"b","l","o","g","s","p","o","t",".","c","o","m">>,
       <<"b","l","o","g","g","e","r",".","c","o","m">>,
       <<"w","i","x",".","c","o","m">>,
       <<"s","q","u","a","r","e","s","p","a","c","e",".","c","o","m">>,
       <<"g","h","o","s","t",".","i","o">>,
       <<"q","u","o","r","a",".","c","o","m">>,
       <<"a","n","s","w","e","r","s",".","y","a","h","o","o",".","c","o","m">>,
       <<"s","t","a","c","k","e","x","c","h","a","n","g","e",".","c","o","m">>,
       <<"b","r","e","i","t","b","a","r","t",".","c","o","m">>,
       <<"i","n","f","o","w","a","r","s",".","c","o","m">>,
       <<"d","a","i","l","y","w","i","r","e",".","c","o","m">>,
       <<"t","h","e","b","l","a","z","e",".","c","o","m">>,
       <<"h","u","f","f","p","o","s","t",".","c","o","m">>,
       <<"r","a","w","s","t","o","r","y",".","c","o","m">>,
       <<"d","a","i","l","y","k","o","s",".","c","o","m">>,
       <<"m","o","t","h","e","r","j","o","n","e","s",".","c","o","m">>,
       <<"d","a","i","l","y","m","a","i","l",".","c","o",".","u","k">>,
       <<"n","y","p","o","s","t",".","c","o","m">>,
       <<"t","h","e","s","u","n",".","c","o",".","u","k">>,
       <<"m","i","r","r","o","r",".","c","o",".","u","k">>,
       <<"t","m","z",".","c","o","m">>,
       <<"p","a","g","e","s","i","x",".","c","o","m">>,
       <<"e","o","n","l","i","n","e",".","c","o","m">>,
       <<"u","s","m","a","g","a","z","i","n","e",".","c","o","m">>,
       <<"b","u","z","z","f","e","e","d",".","c","o","m">>,
       <<"b","o","r","e","d","p","a","n","d","a",".","c","o","m">>,
       <<"d","i","s","t","r","a","c","t","i","f","y",".","c","o","m">>,
       <<"n","a","t","u","r","a","l","n","e","w","s",".","c","o","m">>,
       <<"g","l","o","b","a","l","r","e","s","e","a","r","c","h",".","c","a">>,
       <<"z","e","r","o","h","e","d","g","e",".","c","o","m">> >>

AUTHORITY_TIERS ==
    << [domains |-> TIER1_DOMAINS, score |-> 95],
       [domains |-> TIER2_DOMAINS, score |-> 85],
       [domains |-> TIER3_DOMAINS, score |-> 75],
       [domains |-> TIER4_DOMAINS, score |-> 70],
       [domains |-> TIER5_DOMAINS, score |-> 50] >>

\* A URL is [ok, host, path]: ok is whether new URL(url) parses, host is the
\* lower-cased hostname as characters, path tells URLs of one host apart.
FirstTier(hostname) ==
    CHOOSE t \in 1..Len(AUTHORITY_TIERS) :
        /\ \E d \in Range(AUTHORITY_TIERS[t].domains) :
               Includes(hostname, d) \/ EndsWith(hostname, d)
        /\ \A u \in 1..(t - 1) :
               ~ \E d \in Range(AUTHORITY_TIERS[u].domains) :
                     Includes(hostname, d) \/ EndsWith(hostname, d)

\* the tiers consulted before the deny-list
CalculateAuthorityTiersFirst(url) ==
    IF ~ url.ok THEN 30
    ELSE IF \E t \in 1..Len(AUTHORITY_TIERS) :
                \E d \in Range(AUTHORITY_TIERS[t].domains) :
                    Includes(url.host, d) \/ EndsWith(url.host, d)
         THEN AUTHORITY_TIERS[FirstTier(url.host)].score
    ELSE IF \E d \in Range(LOW_AUTHORITY_DOMAINS) : Includes(url.host, d) THEN 25
    ELSE 40

CalculateAuthority(url) ==
    IF ~ url.ok THEN 30
    ELSE IF \E d \in Range(LOW_AUTHORITY_DOMAINS) : Includes(url.host, d) THEN 25
    ELSE IF \E t \in 1..Len(AUTHORITY_TIERS) :
                \E d \in Range(AUTHORITY_TIERS[t].domains) :
                    Includes(url.host, d) \/ EndsWith(url.host, d)
         THEN AUTHORITY_TIERS[FirstTier(url.host)].score
    ELSE 40

\* ------------------------------------------------------------------------
\* Token-level text (verifier.ts works on lower-cased strings; a text is the
\* sequence of its tokens: words, numbers and punctuation marks, separated
\* in the string by single spaces or written against the previous token).
\* ------------------------------------------------------------------------

\* The number tokens of the vocabulary and their parseInt / parseFloat value
NumVal ==
    [t \in {"1", "29", "30", "31", "78", "79", "300", "330", "2004", "2005"} |->
        CASE t = "1" -> 1 [] t = "29" -> 29 [] t = "30" -> 30 [] t = "31" -> 31
          [] t = "78" -> 78 [] t = "79" -> 79 [] t = "300" -> 300
          [] t = "330" -> 330 [] t = "2004" -> 2004 [] t = "2005" -> 2005]

IsNumber(t) == t \in DOMAIN NumVal
IsPunct(t) == t \in {".", ",", ":", ";", "%", "?", "!"}
\* a token matched whole by [a-z\-']+
IsWord(t) == ~ IsNumber(t) /\ ~ IsPunct(t)

\* Proper substrings among the words of the vocabulary: <<w, p>> says that
\* the string p occurs inside the longer string w.
SUBSTRINGS ==
    { <<"2004", "0">>, <<"2004", "2">>, <<"2004", "4">>, <<"2005", "0">>,
      <<"2005", "2">>, <<"2005", "5">>, <<"29", "2">>, <<"29", "9">>,
      <<"30", "0">>, <<"30", "3">>, <<"300", "0">>, <<"300", "3">>,
      <<"300", "30">>, <<"31", "1">>, <<"31", "3">>, <<"330", "0">>,
      <<"330", "3">>, <<"330", "30">>, <<"78", "7">>, <<"78", "8">>,
      <<"79", "7">>, <<"79", "9">>, <<"acquisition", "sit">>,
      <<"actually", "act">>, <<"actually", "all">>, <<"aged", "age">>,
      <<"alleged", "all">>, <<"allow", "all">>, <<"aren", "are">>,
      <<"aren't", "are">>, <<"aren't", "aren">>, <<"authored", "author">>,
      <<"average", "age">>, <<"became", "came">>, <<"because", "cause">>,
      <<"because", "use">>, <<"become", "come">>, <<"believed", "believe">>,
      <<"birthday", "birth">>, <<"birthplace", "birth">>,
      <<"bought", "ought">>, <<"california", "for">>, <<"call", "all">>,
      <<"can't", "can">>, <<"cannot", "can">>, <<"cannot", "not">>,
      <<"cares", "are">>, <<"cause", "use">>, <<"chase", "has">>,
      <<"claim-1", "claim">>, <<"claimed", "claim">>,
      <<"co-founder", "found">>, <<"co-founder", "founder">>,
      <<"confirmed", "confirme">>, <<"create", "eat">>,
      <<"created", "create">>, <<"created", "eat">>, <<"creator", "eat">>,
      <<"customers", "customer">>, <<"death", "eat">>,
      <<"developed", "develop">>, <<"didn", "did">>, <<"didn't", "did">>,
      <<"didn't", "didn">>, <<"died", "die">>, <<"discovered", "cover">>,
      <<"discoverer", "cover">>, <<"dislike", "like">>, <<"disputes", "put">>,
      <<"doesn", "does">>, <<"doesn't", "does">>, <<"doesn't", "doesn">>,
      <<"don't", "don">>, <<"employees", "employee">>,
      <<"established", "she">>, <<"eventually", "all">>,
      <<"executive", "cut">>, <<"facebook-history", "facebook">>,
      <<"facebook-history", "his">>, <<"facebook-history", "story">>,
      <<"fact", "act">>, <<"fact-check", "act">>, <<"fact-check", "check">>,
      <<"fact-check", "fact">>, <<"factual", "act">>, <<"factual", "fact">>,
      <<"fall", "all">>, <<"father", "the">>, <<"follower", "follow">>,
      <<"followers", "follow">>, <<"followers", "follower">>,
      <<"forecast", "for">>, <<"founded", "found">>, <<"founder", "found">>,
      <<"greatest", "eat">>, <<"hadn", "had">>, <<"hadn't", "had">>,
      <<"hadn't", "hadn">>, <<"hasn", "has">>, <<"hasn't", "has">>,
      <<"hasn't", "hasn">>, <<"haven", "have">>, <<"haven't", "have">>,
      <<"haven't", "haven">>, <<"hold", "old">>, <<"however", "how">>,
      <<"husband", "and">>, <<"inaccurate", "accurate">>,
      <<"incorrect", "correct">>, <<"isn't", "isn">>, <<"laureate", "eat">>,
      <<"let's", "let">>, <<"likely", "like">>, <<"members", "member">>,
      <<"meters", "meter">>, <<"metres", "metre">>,
      <<"misinformation", "for">>, <<"misleading", "lead">>,
      <<"officially", "all">>, <<"officially", "official">>,
      <<"page", "age">>, <<"passed", "pass">>, <<"perform", "for">>,
      <<"personally", "all">>, <<"potentially", "all">>,
      <<"purchased", "chase">>, <<"purchased", "has">>, <<"reach", "each">>,
      <<"really", "all">>, <<"received", "receive">>,
      <<"remember", "member">>, <<"reported", "report">>,
      <<"research", "search">>, <<"return", "turn">>, <<"seems", "seem">>,
      <<"shall", "all">>, <<"show", "how">>, <<"shows", "how">>,
      <<"shows", "show">>, <<"something", "some">>, <<"somewhere", "some">>,
      <<"somewhere", "where">>, <<"spouse", "use">>, <<"stand", "and">>,
      <<"started", "start">>, <<"studies", "die">>,
      <<"subscribers", "subscriber">>, <<"supports", "support">>,
      <<"tall", "all">>, <<"teach", "each">>, <<"them", "the">>,
      <<"these", "the">>, <<"they", "the">>, <<"this", "his">>,
      <<"thought", "ought">>, <<"tvly-valid", "valid">>,
      <<"understand", "and">>, <<"understand", "stand">>,
      <<"untrue", "true">>, <<"unverified", "verified">>, <<"user", "use">>,
      <<"users", "use">>, <<"users", "user">>, <<"wasn", "was">>,
      <<"wasn't", "was">>, <<"wasn't", "wasn">>, <<"weren", "were">>,
      <<"weren't", "were">>, <<"weren't", "weren">>, <<"whom", "who">>,
      <<"winner", "win">>, <<"won't", "won">>, <<"worked", "work">>,
      <<"works", "work">>, <<"wouldn", "would">>, <<"wouldn't", "would">>,
      <<"wouldn't", "wouldn">>, <<"year-old", "old">>, <<"year-old", "year">>,
      <<"years", "year">> }

\* tok.includes(part) for two blank-free strings
TokenIncludes(tok, part) == tok = part \/ <<tok, part>> \in SUBSTRINGS

\* content.includes(part), part a blank-free string
ContentIncludes(content, part) ==
    \E i \in DOMAIN content : TokenIncludes(content[i], part)

\* The phrase (a sequence of whole words) occurs in the text at position i
PhraseAt(text, i, phrase) ==
    /\ i >= 1
    /\ i + Len(phrase) - 1 <= Len(text)
    /\ SubSeq(text, i, i + Len(phrase) - 1) = phrase

HasPhrase(text, phrase) == \E i \in DOMAIN text : PhraseAt(text, i, phrase)

\* /\b(p1|p2|...)\b/.test(text) for a set of phrases
TestPhrases(text, phrases) == \E p \in phrases : HasPhrase(text, p)

\* ------------------------------------------------------------------------
\* Stance detection (verifier.ts)
\* ------------------------------------------------------------------------
SUPPORT_PATTERNS ==
    << { <<"confirme">>, <<"confirmed">>, <<"verified">>, <<"true">>, <<"correct">>,
         <<"accurate">>, <<"factual">>, <<"valid">> },
       { <<b>> \o a : b \in {"is", "are", "was", "were"},
                      a \in {<<"indeed">>, <<"in", "fact">>, <<"actually">>} }
         \cup { <<"has", "been">> \o a :
                  a \in {<<"indeed">>, <<"in", "fact">>, <<"actually">>} },
       { <<"evidence", "shows">>, <<"research", "confirms">>,
         <<"data", "supports">>, <<"studies", "show">> },
       { <<"according", "to", "official">>, <<"officially", "confirmed">> } >>

CONTRADICT_PATTERNS ==
    << { <<"false">>, <<"incorrect">>, <<"inaccurate">>, <<"wrong">>, <<"untrue">>,
         <<"debunked">>, <<"disproven">> },
       { <<"myth">>, <<"hoax">>, <<"fake">>, <<"fabricated">>, <<"misleading">>,
         <<"misinformation">> },
       { <<"no", "evidence">>, <<"lacks", "evidence">>, <<"unsubstantiated">>,
         <<"unverified">> },
       { <<"contrary", "to">>, <<"contradicts">>, <<"refutes">>, <<"disputes">> },
       { <<"not", "true">>, <<"isn't", "true">>, <<"wasn't", "true">>,
         <<"weren't", "true">> } >>

\* the number of patterns of the list that match
CountMatches(patterns, content) ==
    Cardinality({i \in DOMAIN patterns : TestPhrases(content, patterns[i])})

STOP_WORDS ==
    { "the", "a", "an", "is", "are", "was", "were", "be", "been", "being",
      "have", "has", "had", "do", "does", "did", "will", "would", "could",
      "should", "may", "might", "must", "shall", "can", "to", "of", "in",
      "for", "on", "with", "at", "by", "from", "as", "into", "through",
      "that", "which", "who", "whom", "this", "these", "those", "it",
      "and", "but", "or", "not", "no", "yes", "all", "each", "every" }

\* text.replace(/[^\w\s]/g, ' ').split(/\s+/) on one token: punctuation goes,
\* a word is cut at its hyphens and apostrophes
WordPieces(t) ==
    CASE IsPunct(t) -> <<>>
      [] t = "co-founder" -> <<"co", "founder">>
      [] t = "wasn't" -> <<"wasn", "t">>
      [] t = "isn't" -> <<"isn", "t">>
      [] t = "weren't" -> <<"weren", "t">>
      [] t = "didn't" -> <<"didn", "t">>
      [] OTHER -> <<t>>

RECURSIVE Flatten(_)
Flatten(ss) == IF ss = <<>> THEN <<>> ELSE Head(ss) \o Flatten(Tail(ss))

KeepKeyword(w) == Len(w) > 2 /\ w \notin STOP_WORDS

extractKeywords(text) ==
    SelectSeq(Flatten([i \in DOMAIN text |-> WordPieces(text[i])]), KeepKeyword)

\* hundredths are not needed: the gate "relevance < 0.2" is
\* matches / n < 2 / 10, i.e. 10 * matches < 2 * n
RelevanceBelowGate(claimKeywords, content) ==
    IF Len(claimKeywords) = 0 THEN TRUE
    ELSE LET matches == Cardinality({i \in DOMAIN claimKeywords :
                                        ContentIncludes(content, claimKeywords[i])})
         IN 10 * matches < 2 * Len(claimKeywords)

\* Words of the vocabulary that begin with another word: <<w, p>> says that
\* w starts with p (a regex alternative without a closing \b matches it).
PREFIXES ==
    { <<"aren", "are">>, <<"aren't", "are">>, <<"hadn", "had">>,
      <<"hadn't", "had">>, <<"hasn", "has">>, <<"hasn't", "has">>,
      <<"haven", "have">>, <<"haven't", "have">>, <<"isn", "is">>,
      <<"isn't", "is">>, <<"wasn", "was">>, <<"wasn't", "was">>,
      <<"weren", "were">>, <<"weren't", "were">> }

HasPrefix(tok, p) == tok = p \/ <<tok, p>> \in PREFIXES

\* Words of the vocabulary that end with "age" or "aged" (/age[d]?\s*(\d+)/
\* has no opening \b)
ENDS_WITH_AGE == {"age", "aged", "average", "page"}

\* the token after position i, or "" past the end
TokenAt(text, i) == IF i \in DOMAIN text THEN text[i] ELSE ""

\* extractNumbersWithContext: the set of (value, context) pairs
AgeNumbers(text) ==
    { [value |-> NumVal[text[i]], context |-> "age"] :
        i \in { j \in DOMAIN text :
                  /\ IsNumber(text[j])
                  /\ \/ /\ TokenAt(text, j + 1) \in {"years", "year"}
                        /\ HasPrefix(TokenAt(text, j + 2), "old")
                     \/ HasPrefix(TokenAt(text, j + 1), "year-old") } }
    \cup
    { [value |-> NumVal[text[i]], context |-> "age"] :
        i \in { j \in DOMAIN text :
                  /\ IsNumber(text[j])
                  /\ TokenAt(text, j - 1) \in ENDS_WITH_AGE } }

YearNumbers(text) ==
    { [value |-> NumVal[text[i]], context |-> "year"] :
        i \in { j \in DOMAIN text :
                  /\ IsNumber(text[j])
                  /\ Len(text[j]) = 4
                  /\ NumVal[text[j]] >= 1800 /\ NumVal[text[j]] <= 2099
                  /\ TokenAt(text, j - 1) \in {"in", "born", "since", "from", "year"} } }

HeightNumbers(text) ==
    { [value |-> NumVal[text[i]], context |-> "height"] :
        i \in { j \in DOMAIN text :
                  /\ IsNumber(text[j])
                  /\ TokenAt(text, j + 1) \in
                       {"meter", "meters", "metre", "metres", "feet", "foot",
                        "ft", "cm", "m"} } }

PercentNumbers(text) ==
    { [value |-> NumVal[text[i]], context |-> "percentage"] :
        i \in { j \in DOMAIN text :
                  /\ IsNumber(text[j])
                  /\ \/ TokenAt(text, j + 1) = "%"
                     \/ HasPrefix(TokenAt(text, j + 1), "percent") } }

AmountNumbers(text) ==
    { [value |-> NumVal[text[i]], context |-> "amount"] :
        i \in { j \in DOMAIN text :
                  /\ IsNumber(text[j])
                  /\ \E u \in {"million", "billion", "trillion"} :
                        HasPrefix(TokenAt(text, j + 1), u) } }

extractNumbersWithContext(text) ==
    AgeNumbers(text) \cup YearNumbers(text) \cup HeightNumbers(text)
        \cup PercentNumbers(text) \cup AmountNumbers(text)

contextsMatch(context1, context2) == context1 = context2

\* "CONTRADICTS" or "null"
detectNumericContradiction(claim, content) ==
    LET claimNumbers == extractNumbersWithContext(claim)
        contentNumbers == extractNumbersWithContext(content)
    IN IF claimNumbers = {} THEN "null"
       ELSE IF \E claimNum \in claimNumbers, contentNum \in contentNumbers :
                  /\ contextsMatch(claimNum.context, contentNum.context)
                  /\ claimNum.value # contentNum.value
                  /\ Abs(claimNum.value - contentNum.value) > 1
            THEN "CONTRADICTS"
            ELSE "null"

\* /\b(verdict|rating|status)[:\s]*(w1|w2|...)/: a label word, any colons,
\* then a word that starts with one of the verdict words
LabelledVerdict(content, words) ==
    \E i \in DOMAIN content, j \in DOMAIN content :
        /\ content[i] \in {"verdict", "rating", "status"}
        /\ j > i
        /\ \A k \in (i + 1)..(j - 1) : content[k] = ":"
        /\ \E w \in words : HasPrefix(content[j], w)

\* "SUPPORTS", "CONTRADICTS" or "null"
detectExplicitVerdict(content) ==
    LET label == TestPhrases(content, {<<"rating">>, <<"verdict">>, <<"ruling">>})
    IN IF TestPhrases(content, {<<"true">>, <<"mostly", "true">>}) /\ label
           THEN "SUPPORTS"
       ELSE IF TestPhrases(content, {<<"false">>, <<"pants", "on", "fire">>,
                                     <<"mostly", "false">>}) /\ label
           THEN "CONTRADICTS"
       ELSE IF LabelledVerdict(content, {"true", "correct", "confirmed"})
           THEN "SUPPORTS"
       ELSE IF LabelledVerdict(content, {"false", "incorrect", "fake", "hoax"})
           THEN "CONTRADICTS"
       ELSE "null"

\* ------------------------------------------------------------------------
\* detectSemanticMatch: relation templates.  A claimPattern
\*     ([a-z\s\-']+) <middle> (<class>+)
\* is kept as the ordered list of the token phrases its middle can match
\* (regex preference order: an optional part present before absent,
\* alternatives left to right) and the character class of its last group.
\* ------------------------------------------------------------------------
NEGATION_WORDS ==
    { "not", "never", "wasn't", "weren't", "isn't", "aren't", "didn't",
      "doesn't", "don't", "hasn't", "haven't", "hadn't", "cannot", "can't",
      "won't", "wouldn't" }

isNegated(claim) == \E i \in DOMAIN claim : claim[i] \in NEGATION_WORDS

\* token membership in the character classes of the capture groups
APOSTROPHE_WORDS == NEGATION_WORDS \ {"not", "never", "cannot"}

\* the letters of an apostrophe word before its apostrophe
BeforeApostrophe(t) ==
    CASE t = "wasn't" -> "wasn" [] t = "weren't" -> "weren" [] t = "isn't" -> "isn"
      [] t = "aren't" -> "aren" [] t = "didn't" -> "didn" [] t = "doesn't" -> "doesn"
      [] t = "don't" -> "don" [] t = "hasn't" -> "hasn" [] t = "haven't" -> "haven"
      [] t = "hadn't" -> "hadn" [] t = "can't" -> "can" [] t = "won't" -> "won"
      [] t = "wouldn't" -> "wouldn"

\* a token matched whole by the class
InClass(t, class) ==
    CASE class = "word" -> IsWord(t)                          \* [a-z\s\-']
      [] class = "wordcomma" -> IsWord(t) \/ t = ","         \* [a-z\s,\-']
      [] class = "wordnum" ->                                 \* [a-z0-9\s,\-]
             (IsWord(t) /\ t \notin APOSTROPHE_WORDS) \/ IsNumber(t) \/ t = ","

\* a token the class matches up to its apostrophe only
CutByClass(t, class) == class = "wordnum" /\ t \in APOSTROPHE_WORDS

FOUNDED_VERBS == {"founded", "created", "started", "established", "built", "launched"}
TITLES == {"ceo", "founder", "co-founder", "creator", "president", "chairman"}

\* Within one list entry the alternatives start with different words, so
\* their mutual order cannot change which one matches at a position.
SEMANTIC_PATTERNS ==
    << \* X (was|is)? founded|created|... by Y
       [ g1 |-> TRUE,
         mids |-> << { <<w>> \o <<v, "by">> : w \in {"was", "is"}, v \in FOUNDED_VERBS },
                     { <<v, "by">> : v \in FOUNDED_VERBS } >>,
         class |-> "word", g2min |-> 1,
         indicators |-> {"founded", "founder", "co-founder", "ceo", "creator",
                         "started", "built", "established", "launched"},
         phrases |-> {},
         name |-> 2, entity |-> 1 ],
       \* X is|was|became (the)? ceo|founder|... (of|at)? Y
       [ g1 |-> TRUE,
         mids |-> << { <<c, "the", t, p>> : c \in {"is", "was", "became"}, t \in TITLES,
                                            p \in {"of", "at"} },
                     { <<c, "the", t>> : c \in {"is", "was", "became"}, t \in TITLES },
                     { <<c, t, p>> : c \in {"is", "was", "became"}, t \in TITLES,
                                     p \in {"of", "at"} },
                     { <<c, t>> : c \in {"is", "was", "became"}, t \in TITLES } >>,
         class |-> "word", g2min |-> 0,
         indicators |-> {"ceo", "founder", "co-founder", "creator", "president",
                         "chairman"},
         phrases |-> {<<"chief", "executive">>},
         name |-> 1, entity |-> 2 ],
       \* written|wrote|authored|penned by Y
       [ g1 |-> FALSE,
         mids |-> << { <<v, "by">> : v \in {"written", "wrote", "authored", "penned"} } >>,
         class |-> "word", g2min |-> 1,
         indicators |-> {"wrote", "written", "author", "authored", "penned", "writer"},
         phrases |-> {},
         name |-> 2, entity |-> 0 ],
       \* X invented|discovered|created|developed|designed Y
       [ g1 |-> TRUE,
         mids |-> << { <<v>> : v \in {"invented", "discovered", "created", "developed",
                                      "designed"} } >>,
         class |-> "word", g2min |-> 1,
         indicators |-> {"invented", "discovered", "created", "developed",
                         "designed", "inventor", "discoverer"},
         phrases |-> {<<"invented", "by">>},
         name |-> 1, entity |-> 2 ],
       \* X owns|owned|acquired|bought|purchased Y
       [ g1 |-> TRUE,
         mids |-> << { <<v>> : v \in {"owns", "owned", "acquired", "bought",
                                      "purchased"} } >>,
         class |-> "word", g2min |-> 1,
         indicators |-> {"owns", "owned", "acquired", "bought", "purchased",
                         "acquisition", "owner"},
         phrases |-> {},
         name |-> 1, entity |-> 2 ],
       \* X won|received|earned|awarded|got (the)? Y
       [ g1 |-> TRUE,
         mids |-> << { <<v, "the">> : v \in {"won", "received", "earned", "awarded", "got"} },
                     { <<v>> : v \in {"won", "received", "earned", "awarded", "got"} } >>,
         class |-> "word", g2min |-> 1,
         indicators |-> {"won", "winner", "received", "awarded", "earned",
                         "recipient", "laureate"},
         phrases |-> {},
         name |-> 1, entity |-> 2 ],
       \* X works|worked|employed at|by|for Y
       [ g1 |-> TRUE,
         mids |-> << { <<v, p>> : v \in {"works", "worked", "employed"},
                                  p \in {"at", "by", "for"} } >>,
         class |-> "word", g2min |-> 1,
         indicators |-> {"works", "worked", "employee", "employed", "staff", "team"},
         phrases |-> {},
         name |-> 1, entity |-> 2 ],
       \* X is|was married to | the wife|husband|spouse|partner of Y
       [ g1 |-> TRUE,
         mids |-> << { <<c, "married", "to">> : c \in {"is", "was"} }
                       \cup { <<c, "the", r, "of">> :
                                c \in {"is", "was"},
                                r \in {"wife", "husband", "spouse", "partner"} } >>,
         class |-> "word", g2min |-> 1,
         indicators |-> {"married", "wife", "husband", "spouse", "partner", "wedding"},
         phrases |-> {},
         name |-> 1, entity |-> 2 ],
       \* X (was)? born in|on Y
       [ g1 |-> TRUE,
         mids |-> << { <<"was", "born", p>> : p \in {"in", "on"} },
                     { <<"born", p>> : p \in {"in", "on"} } >>,
         class |-> "wordnum", g2min |-> 1,
         indicators |-> {"born", "birth", "birthday", "birthplace", "native"},
         phrases |-> {},
         name |-> 1, entity |-> 2 ],
       \* X died in|on Y
       [ g1 |-> TRUE,
         mids |-> << { <<"died", p>> : p \in {"in", "on"} } >>,
         class |-> "wordnum", g2min |-> 1,
         indicators |-> {"died", "death", "deceased"},
         phrases |-> {<<"passed", "away">>},
         name |-> 1, entity |-> 2 ] >>

\* the last group can start at position next: a blank precedes it, so the
\* token there is no punctuation mark, and "+" needs a token of the class
GroupCanStart(claim, next, class, g2min) ==
    /\ next \in DOMAIN claim
    /\ ~ IsPunct(claim[next])
    /\ (g2min = 0 \/ InClass(claim[next], class) \/ CutByClass(claim[next], class))

\* the alternatives of mids[k] that match at pos with the last group after
AltsAt(claim, pos, p, k) ==
    { m \in p.mids[k] :
        /\ PhraseAt(claim, pos, m)
        /\ GroupCanStart(claim, pos + Len(m), p.class, p.g2min) }

\* the middle the regex engine settles on at pos, <<>> when none fits
MiddleAt(claim, pos, p) ==
    LET ks == { k \in DOMAIN p.mids : AltsAt(claim, pos, p, k) # {} }
    IN IF ks = {} THEN <<>>
       ELSE CHOOSE m \in AltsAt(claim, pos, p, MinOfSet(ks)) : TRUE

\* start of the run of words that ends at position e
RunStart(claim, e) ==
    MinOfSet({ s \in 1..e : \A j \in s..e : IsWord(claim[j]) })

\* the group that takes claim[next..last] and what the class matches of the
\* token after
GroupUpTo(claim, next, last, class) ==
    SubSeq(claim, next, last)
      \o (IF CutByClass(TokenAt(claim, last + 1), class)
          THEN << BeforeApostrophe(claim[last + 1]) >> ELSE <<>>)

LongestRun(ends) == CHOOSE e \in ends : \A f \in ends : f <= e

\* greedy last group: the longest run of class tokens from position next
GroupFrom(claim, next, class) ==
    GroupUpTo(claim, next,
              LongestRun({ e \in (next - 1)..Len(claim) :
                             \A j \in next..e : InClass(claim[j], class) }),
              class)

NoMatch == [matched |-> FALSE, g1 |-> <<>>, g2 |-> <<>>]

\* the match whose first group is claim[s..e1] and whose middle is m
MatchWith(claim, p, s, e1, m) ==
    [ matched |-> TRUE,
      g1 |-> SubSeq(claim, s, e1),
      g2 |-> GroupFrom(claim, e1 + 1 + Len(m), p.class) ]

\* the longest first group among those that start at s
LastEnd(claim, ends, s) ==
    CHOOSE e \in ends :
        /\ RunStart(claim, e) = s
        /\ \A f \in ends : RunStart(claim, f) = s => f <= e

MatchFromStart(claim, p, s, e1) == MatchWith(claim, p, s, e1, MiddleAt(claim, e1 + 1, p))

\* ends: the positions a first group can end at; the leftmost start wins
MatchAmong(claim, p, ends, s) ==
    IF ends = {} THEN NoMatch
    ELSE MatchFromStart(claim, p, s, LastEnd(claim, ends, s))

FirstStart(claim, ends) ==
    IF ends = {} THEN 0 ELSE MinOfSet({ RunStart(claim, e) : e \in ends })

MatchWithGroupOne(claim, p, ends) == MatchAmong(claim, p, ends, FirstStart(claim, ends))

\* starts: the positions the middle fits at, the pattern having no first group
MatchWithoutGroupOne(claim, p, starts, i) ==
    IF starts = {} THEN NoMatch
    ELSE MatchWith(claim, p, i, i - 1, MiddleAt(claim, i, p))

\* claim.match(pattern.claimPattern): leftmost match, first group greedy
MatchPattern(claim, p) ==
    IF p.g1
    THEN MatchWithGroupOne(claim, p,
             { e \in DOMAIN claim :
                 IsWord(claim[e]) /\ MiddleAt(claim, e + 1, p) # <<>> })
    ELSE MatchWithoutGroupOne(claim, p,
             { i \in DOMAIN claim : MiddleAt(claim, i, p) # <<>> },
             MinOfSet({ i \in DOMAIN claim : MiddleAt(claim, i, p) # <<>> }
                      \cup {Len(claim) + 1}))

\* group.trim().split(/\s+/): the blank-separated pieces; a comma is written
\* against the word before it and belongs to that piece
Pieces(group) ==
    LET positions == SelectSeq([i \in DOMAIN group |-> i], LAMBDA i : group[i] # ",")
    IN [ k \in DOMAIN positions |->
           [ w |-> group[positions[k]],
             comma |-> TokenAt(group, positions[k] + 1) = "," ] ]

PieceLen(piece) == Len(piece.w) + (IF piece.comma THEN 1 ELSE 0)

\* .filter(p => p.length > 2 && !drop.includes(p))
Parts(group, drop) ==
    SelectSeq(Pieces(group),
              LAMBDA piece : PieceLen(piece) > 2 /\ ~ (piece.w \in drop /\ ~ piece.comma))

\* content.includes(part)
ContentHasPart(content, piece) ==
    IF piece.comma
    THEN \E i \in DOMAIN content :
             TokenIncludes(content[i], piece.w) /\ TokenAt(content, i + 1) = ","
    ELSE ContentIncludes(content, piece.w)

EveryPart(content, parts) == \A i \in DOMAIN parts : ContentHasPart(content, parts[i])
SomePart(content, parts) == \E i \in DOMAIN parts : ContentHasPart(content, parts[i])

\* the content test of one template of the patterns list
PartsEntailed(content, p, nameParts, entityParts) ==
    LET contentHasName == Len(nameParts) > 0 /\ EveryPart(content, nameParts)
        contentHasIndicator ==
            \/ \E ind \in p.indicators : ContentIncludes(content, ind)
            \/ \E ph \in p.phrases : HasPhrase(content, ph)
        contentHasEntity == Len(entityParts) = 0 \/ EveryPart(content, entityParts)
    IN contentHasName /\ contentHasIndicator /\ contentHasEntity

\* mt is claim.match(pattern.claimPattern)
MatchEntailed(mt, content, p) ==
    /\ mt.matched
    /\ PartsEntailed(content, p,
           Parts(IF p.name = 1 THEN mt.g1 ELSE mt.g2, {}),
           Parts(IF p.entity = 0 THEN <<>>
                 ELSE IF p.entity = 1 THEN mt.g1 ELSE mt.g2, {}))

PatternEntailed(claim, content, p) == MatchEntailed(MatchPattern(claim, p), content, p)

LOCATION_PATTERN ==
    [ g1 |-> TRUE,
      mids |-> << { <<c, l, "in">> : c \in {"is", "are", "was", "were"},
                                     l \in {"located", "based", "headquartered"} },
                  { <<c, "in">> : c \in {"is", "are", "was", "were"} } >>,
      class |-> "wordcomma", g2min |-> 1 ]

\* mt is the match of the location template
LocationMatchEntailed(mt, content) ==
    /\ mt.matched
    /\ EveryPart(content, Parts(mt.g1, {}))
    /\ SomePart(content, Parts(mt.g2, {}))

LocationEntailed(claim, content) ==
    LocationMatchEntailed(MatchPattern(claim, LOCATION_PATTERN), content)

QUANTITY_UNITS ==
    {"employees", "users", "members", "customers", "subscribers", "followers"}

\* /s$/ removed from a unit
Singular(unit) ==
    CASE unit = "employees" -> "employee" [] unit = "users" -> "user"
      [] unit = "members" -> "member" [] unit = "customers" -> "customer"
      [] unit = "subscribers" -> "subscriber" [] unit = "followers" -> "follower"

\* X has <number> <unit>
\* the entity is claim[s..e1], then "has", the quantity and the unit
QuantityMatchEntailed(claim, content, s, e1, unit) ==
    /\ EveryPart(content, Parts(SubSeq(claim, s, e1), {}))
    /\ ContentIncludes(content, unit) \/ ContentIncludes(content, Singular(unit))
    /\ ContentIncludes(content, claim[e1 + 2])

QuantityFromStart(claim, content, s, e1) ==
    QuantityMatchEntailed(claim, content, s, e1,
        CHOOSE u \in QUANTITY_UNITS : HasPrefix(claim[e1 + 3], u))

QuantityAmong(claim, content, ends, s) ==
    /\ ends # {}
    /\ QuantityFromStart(claim, content, s, LastEnd(claim, ends, s))

QuantityWithEnds(claim, content, ends) ==
    QuantityAmong(claim, content, ends, FirstStart(claim, ends))

QuantityEntailed(claim, content) ==
    QuantityWithEnds(claim, content,
        { e \in DOMAIN claim :
            /\ IsWord(claim[e])
            /\ TokenAt(claim, e + 1) = "has"
            /\ IsNumber(TokenAt(claim, e + 2))
            /\ \E u \in QUANTITY_UNITS : HasPrefix(TokenAt(claim, e + 3), u) })

IDENTITY_PATTERN ==
    [ g1 |-> TRUE,
      mids |-> << { <<c, a>> : c \in {"is", "was", "are", "were"},
                               a \in {"a", "an", "the"} },
                  { <<c>> : c \in {"is", "was", "are", "were"} } >>,
      class |-> "word", g2min |-> 1 ]

IdentityPartsEntailed(content, subjectParts, predicateParts) ==
    /\ Len(subjectParts) > 0 /\ Len(predicateParts) > 0
    /\ EveryPart(content, subjectParts)
    /\ SomePart(content, predicateParts)
    /\ ~ \E i \in DOMAIN CONTRADICT_PATTERNS :
            TestPhrases(content, CONTRADICT_PATTERNS[i])

\* mt is the match of the identity template
IdentityMatchEntailed(mt, content) ==
    /\ mt.matched
    /\ IdentityPartsEntailed(content,
           Parts(mt.g1, {"the", "and", "for"}),
           Parts(mt.g2, {"the", "and", "for", "who", "that"}))

IdentityEntailed(claim, content) ==
    IdentityMatchEntailed(MatchPattern(claim, IDENTITY_PATTERN), content)

\* "SUPPORTS", "CONTRADICTS" or "null"
detectSemanticMatch(claim, content) ==
    IF \/ \E i \in DOMAIN SEMANTIC_PATTERNS :
              PatternEntailed(claim, content, SEMANTIC_PATTERNS[i])
       \/ LocationEntailed(claim, content)
       \/ QuantityEntailed(claim, content)
       \/ IdentityEntailed(claim, content)
    THEN (IF isNegated(claim) THEN "CONTRADICTS" ELSE "SUPPORTS")
    ELSE "null"

\* detectStance with the numeric check moved behind the keyword signals
detectStanceSignalsFirst(claim, content) ==
    LET claimKeywords == extractKeywords(claim)
        supportScore == CountMatches(SUPPORT_PATTERNS, content)
        contradictScore == CountMatches(CONTRADICT_PATTERNS, content)
        explicitVerdict == detectExplicitVerdict(content)
        signalDifference == supportScore - contradictScore
    IN IF RelevanceBelowGate(claimKeywords, content) THEN "INCONCLUSIVE"
       ELSE IF detectSemanticMatch(claim, content) = "SUPPORTS" THEN "SUPPORTS"
       ELSE IF explicitVerdict # "null" THEN explicitVerdict
       ELSE IF signalDifference >= 2 THEN "SUPPORTS"
       ELSE IF signalDifference <= -2 THEN "CONTRADICTS"
       ELSE IF supportScore > 0 /\ contradictScore = 0 THEN "SUPPORTS"
       ELSE IF contradictScore > 0 /\ supportScore = 0 THEN "CONTRADICTS"
       ELSE IF detectNumericContradiction(claim, content) = "CONTRADICTS"
            THEN "CONTRADICTS"
       ELSE "INCONCLUSIVE"

\* detectStance with the signal balance consulted before the explicit verdict
detectStanceBalanceFirst(claim, content) ==
    LET claimKeywords == extractKeywords(claim)
        supportScore == CountMatches(SUPPORT_PATTERNS, content)
        contradictScore == CountMatches(CONTRADICT_PATTERNS, content)
        explicitVerdict == detectExplicitVerdict(content)
        signalDifference == supportScore - contradictScore
    IN IF RelevanceBelowGate(claimKeywords, content) THEN "INCONCLUSIVE"
       ELSE IF detectNumericContradiction(claim, content) = "CONTRADICTS" THEN "CONTRADICTS"
       ELSE IF detectSemanticMatch(claim, content) = "SUPPORTS" THEN "SUPPORTS"
       ELSE IF signalDifference >= 2 THEN "SUPPORTS"
       ELSE IF signalDifference <= -2 THEN "CONTRADICTS"
       ELSE IF supportScore > 0 /\ contradictScore = 0 THEN "SUPPORTS"
       ELSE IF contradictScore > 0 /\ supportScore = 0 THEN "CONTRADICTS"
       ELSE IF explicitVerdict # "null" THEN explicitVerdict
       ELSE "INCONCLUSIVE"

\* detectStance(claim, content) on the lower-cased token texts
detectStance(claim, content) ==
    LET claimKeywords == extractKeywords(claim)
        supportScore == CountMatches(SUPPORT_PATTERNS, content)
        contradictScore == CountMatches(CONTRADICT_PATTERNS, content)
        explicitVerdict == detectExplicitVerdict(content)
        signalDifference == supportScore - contradictScore
    IN IF RelevanceBelowGate(claimKeywords, content) THEN "INCONCLUSIVE"
       ELSE IF detectNumericContradiction(claim, content) = "CONTRADICTS"
            THEN "CONTRADICTS"
       ELSE IF detectSemanticMatch(claim, content) = "SUPPORTS" THEN "SUPPORTS"
       ELSE IF explicitVerdict # "null" THEN explicitVerdict
       ELSE IF signalDifference >= 2 THEN "SUPPORTS"
       ELSE IF signalDifference <= -2 THEN "CONTRADICTS"
       ELSE IF supportScore > 0 /\ contradictScore = 0 THEN "SUPPORTS"
       ELSE IF contradictScore > 0 /\ supportScore = 0 THEN "CONTRADICTS"
       ELSE "INCONCLUSIVE"

\* ------------------------------------------------------------------------
\* Evidence (verifier.ts).  Authority scores and confidences are kept as
\* integer hundredths (0.95 is 95); a consensus score is the exact fraction
\* num / den of hundredths.
\* ------------------------------------------------------------------------
\* A published date is [has, day]: has is whether the result carries one,
\* day is its calendar day counted from the day the model starts (<= 0).
NoDate == [has |-> FALSE, day |-> 0]

\* extractSourceName(url) for the hosts the search provider serves here
extractSourceName(url) ==
    IF ~ url.ok THEN "Unknown Source"
    ELSE CASE url.host = <<"r","e","u","t","e","r","s",".","c","o","m">> -> "Reuters"
           [] url.host = <<"s","n","o","p","e","s",".","c","o","m">> -> "Snopes"
           [] url.host = <<"e","n",".","w","i","k","i","p","e","d","i","a",".","o","r","g">>
                -> "Wikipedia"
           [] url.host = <<"t","w","i","t","t","e","r",".","c","o","m">> -> "Twitter"
           [] OTHER -> "Example"

\* result.raw_content || result.content: an empty string is falsy
AnalysisContent(searchResult) ==
    IF searchResult.raw_content # <<>> THEN searchResult.raw_content ELSE searchResult.content

classifyEvidence(claim, searchResult) ==
    [ source |-> extractSourceName(searchResult.url),
      url |-> searchResult.url,
      snippet |-> searchResult.content,
      rawContent |-> searchResult.raw_content,
      stance |-> detectStance(claim.text, AnalysisContent(searchResult)),
      authority |-> CalculateAuthority(searchResult.url),
      publishedDate |-> searchResult.published_date ]

\* Math.abs(b.authority - a.authority) > 0.1 on the doubles the scores are:
\* 0.4 - 0.3 is 0.10000000000000003, every other difference of one tenth
\* between two scores (0.95 - 0.85, 0.85 - 0.75, 0.5 - 0.4) is
\* 0.09999999999999998
OutsideBand(x, y) == Abs(y - x) > 10 \/ {x, y} = {30, 40}

\* the comparator of rankEvidence: negative when a goes before b
RankCompare(a, b) ==
    LET authorityDiff == b.authority - a.authority
    IN IF OutsideBand(a.authority, b.authority) THEN authorityDiff
       ELSE IF a.publishedDate.has /\ b.publishedDate.has
            THEN b.publishedDate.day - a.publishedDate.day
       ELSE IF a.publishedDate.has THEN -1
       ELSE IF b.publishedDate.has THEN 1
       ELSE 0

\* Array.prototype.sort is stable; compareFn(a, b) < 0 puts a before b.
\* order "rank" is rankEvidence's comparator, order "authority" is
\* (a, b) => b.authority - a.authority
ComesBefore(order, a, b) ==
    IF order = "rank" THEN RankCompare(a, b) < 0
    ELSE b.authority - a.authority < 0

\* e goes after every item it must not precede
RECURSIVE InsertSorted(_, _, _)
InsertSorted(e, sorted, order) ==
    IF sorted = <<>> THEN <<e>>
    ELSE IF ComesBefore(order, e, Head(sorted)) THEN <<e>> \o sorted
    ELSE <<Head(sorted)>> \o InsertSorted(e, Tail(sorted), order)

RECURSIVE SortBy(_, _)
SortBy(list, order) ==
    IF list = <<>> THEN <<>>
    ELSE InsertSorted(list[Len(list)], SortBy(SubSeq(list, 1, Len(list) - 1), order),
                      order)

rankEvidence(evidence) == SortBy(evidence, "rank")

\* the comparator orders the items of the list consistently: going before
\* is transitive and so is comparing equal
ConsistentComparator(list) ==
    \A i, j, k \in DOMAIN list :
        /\ RankCompare(list[i], list[j]) < 0 /\ RankCompare(list[j], list[k]) < 0
               => RankCompare(list[i], list[k]) < 0
        /\ RankCompare(list[i], list[j]) = 0 /\ RankCompare(list[j], list[k]) = 0
               => RankCompare(list[i], list[k]) = 0

\* the list in every order
Rearrangements(list) ==
    { [i \in DOMAIN list |-> list[p[i]]] : p \in Permutations(DOMAIN list) }

\* what [...evidence].sort(comparator) can return: the sorted list, or, when
\* the comparator is not consistent on the items, an order the engine picks
RankOutcomes(evidence) ==
    IF ConsistentComparator(evidence) THEN {rankEvidence(evidence)}
    ELSE Rearrangements(evidence)

RECURSIVE SumAuthority(_)
SumAuthority(list) ==
    IF list = <<>> THEN 0 ELSE Head(list).authority + SumAuthority(Tail(list))

HasStance(e, stance) == e.stance = stance

\* aggregateEvidence with a consensus of source counts instead of authorities
aggregateEvidenceBySourceCount(evidence) ==
    LET supporting == SelectSeq(evidence, LAMBDA e : HasStance(e, "SUPPORTS"))
        contradicting == SelectSeq(evidence, LAMBDA e : HasStance(e, "CONTRADICTS"))
        inconclusive == SelectSeq(evidence, LAMBDA e : HasStance(e, "INCONCLUSIVE"))
        totalWeight == Len(supporting) + Len(contradicting)
    IN [ supporting |-> supporting,
         contradicting |-> contradicting,
         inconclusive |-> inconclusive,
         consensusScore |->
             IF totalWeight > 0
             THEN [num |-> Len(supporting) - Len(contradicting), den |-> totalWeight]
             ELSE [num |-> 0, den |-> 1],
         totalSources |-> Len(evidence) ]

aggregateEvidence(evidence) ==
    LET supporting == SelectSeq(evidence, LAMBDA e : HasStance(e, "SUPPORTS"))
        contradicting == SelectSeq(evidence, LAMBDA e : HasStance(e, "CONTRADICTS"))
        inconclusive == SelectSeq(evidence, LAMBDA e : HasStance(e, "INCONCLUSIVE"))
        weightedSupport == SumAuthority(supporting)
        weightedContradict == SumAuthority(contradicting)
        totalWeight == weightedSupport + weightedContradict
    IN [ supporting |-> supporting,
         contradicting |-> contradicting,
         inconclusive |-> inconclusive,
         consensusScore |->
             IF totalWeight > 0
             THEN [num |-> weightedSupport - weightedContradict, den |-> totalWeight]
             ELSE [num |-> 0, den |-> 1],
         totalSources |-> Len(evidence) ]

processSearchResults(claim, searchResults) ==
    LET evidence == [i \in DOMAIN searchResults |->
                        classifyEvidence(claim, searchResults[i])]
        ranked == rankEvidence(evidence)
    IN aggregateEvidence(ranked)

\* ------------------------------------------------------------------------
\* Verdict engine (types.ts, "VERDICT THRESHOLDS" onwards)
\* ------------------------------------------------------------------------
MIN_SOURCES_FOR_VERDICT == 2
SUPPORTED_THRESHOLD == 60
FALSE_THRESHOLD == -60
MISLEADING_RANGE == [min |-> -60, max |-> 30]
MAX_CONFIDENCE == 90
MIN_CONFIDENCE == 10

\* consensusScore >= t and consensusScore <= t, t in hundredths
ScoreAtLeast(score, t) == 100 * score.num >= t * score.den
ScoreAtMost(score, t) == 100 * score.num <= t * score.den

\* determineVerdictLabel with the SUPPORTED rule not asking for two
\* supporting sources
determineVerdictLabelAnySupport(evidence) ==
    IF evidence.totalSources < MIN_SOURCES_FOR_VERDICT
        THEN "INSUFFICIENT_EVIDENCE"
    ELSE IF Len(evidence.supporting) = 0 /\ Len(evidence.contradicting) = 0
        THEN "INSUFFICIENT_EVIDENCE"
    ELSE IF ScoreAtLeast(evidence.consensusScore, SUPPORTED_THRESHOLD)
        THEN "SUPPORTED"
    ELSE IF /\ ScoreAtMost(evidence.consensusScore, FALSE_THRESHOLD)
            /\ Len(evidence.contradicting) >= 2
        THEN "FALSE"
    ELSE IF /\ ScoreAtLeast(evidence.consensusScore, MISLEADING_RANGE.min)
            /\ ScoreAtMost(evidence.consensusScore, MISLEADING_RANGE.max)
            /\ Len(evidence.contradicting) > 0
            /\ Len(evidence.supporting) > 0
        THEN "MISLEADING"
    ELSE "INSUFFICIENT_EVIDENCE"

determineVerdictLabel(evidence) ==
    IF evidence.totalSources < MIN_SOURCES_FOR_VERDICT
        THEN "INSUFFICIENT_EVIDENCE"
    ELSE IF Len(evidence.supporting) = 0 /\ Len(evidence.contradicting) = 0
        THEN "INSUFFICIENT_EVIDENCE"
    ELSE IF /\ ScoreAtLeast(evidence.consensusScore, SUPPORTED_THRESHOLD)
            /\ Len(evidence.supporting) >= 2
        THEN "SUPPORTED"
    ELSE IF /\ ScoreAtMost(evidence.consensusScore, FALSE_THRESHOLD)
            /\ Len(evidence.contradicting) >= 2
        THEN "FALSE"
    ELSE IF /\ ScoreAtLeast(evidence.consensusScore, MISLEADING_RANGE.min)
            /\ ScoreAtMost(evidence.consensusScore, MISLEADING_RANGE.max)
            /\ Len(evidence.contradicting) > 0
            /\ Len(evidence.supporting) > 0
        THEN "MISLEADING"
    ELSE "INSUFFICIENT_EVIDENCE"

\* e.authority >= 0.8
HighAuthority(e) == e.authority >= 80

\* Math.round(x * 100) for x = n / d hundredths given as the fraction n / d
\* (d > 0): floor(n / d + 1/2)
RoundFraction(n, d) == (2 * n + d) \div (2 * d)

\* the confidence before the clamp, in hundredths, as the fraction n / d
ConfidenceValue(evidence, verdict) ==
    LET score == evidence.consensusScore
        sourceBoost == Min2(20, evidence.totalSources * 3)
        relevantEvidence == IF verdict = "FALSE" THEN evidence.contradicting
                            ELSE evidence.supporting
        highAuthorityCount == Len(SelectSeq(relevantEvidence, HighAuthority))
        authorityBoost == Min2(15, highAuthorityCount * 5)
        n0 == 100 * Abs(score.num) + (sourceBoost + authorityBoost) * score.den
    IN [ n |-> IF verdict = "MISLEADING" THEN 7 * n0 ELSE n0,
         d |-> IF verdict = "MISLEADING" THEN 10 * score.den ELSE score.den ]

\* calculateConfidence without the penalty for MISLEADING
calculateConfidenceWithoutPenalty(evidence, verdict) ==
    IF verdict = "INSUFFICIENT_EVIDENCE" THEN MIN_CONFIDENCE
    ELSE LET value == ConfidenceValue(evidence, "SUPPORTED")
         IN IF value.n < MIN_CONFIDENCE * value.d THEN MIN_CONFIDENCE
            ELSE IF value.n > MAX_CONFIDENCE * value.d THEN MAX_CONFIDENCE
            ELSE RoundFraction(value.n, value.d)

\* in exact arithmetic: a value halfway between two hundredths goes up
calculateConfidence(evidence, verdict) ==
    IF verdict = "INSUFFICIENT_EVIDENCE" THEN MIN_CONFIDENCE
    ELSE LET value == ConfidenceValue(evidence, verdict)
             clampedLow == value.n < MIN_CONFIDENCE * value.d
             clampedHigh == value.n > MAX_CONFIDENCE * value.d
         IN IF clampedLow THEN MIN_CONFIDENCE
            ELSE IF clampedHigh THEN MAX_CONFIDENCE
            ELSE RoundFraction(value.n, value.d)

\* the exact value is halfway between two hundredths
ConfidenceTie(evidence, verdict) ==
    /\ verdict # "INSUFFICIENT_EVIDENCE"
    /\ LET value == ConfidenceValue(evidence, verdict)
       IN /\ value.n >= MIN_CONFIDENCE * value.d
          /\ value.n <= MAX_CONFIDENCE * value.d
          /\ (2 * value.n) % (2 * value.d) = value.d

\* what calculateConfidence can return on doubles: the products and sums
\* carry rounding errors, so a value that is exactly halfway between two
\* hundredths reaches Math.round on either side (0.7 * 0.35 is
\* 0.24499999999999997 and gives 0.24)
ConfidenceOutcomes(evidence, verdict) ==
    IF ConfidenceTie(evidence, verdict)
    THEN { calculateConfidence(evidence, verdict) - 1, calculateConfidence(evidence, verdict) }
    ELSE { calculateConfidence(evidence, verdict) }

\* the list selectCitations sorts in place, and what the sort leaves there
RelevantEvidence(evidence, verdict) ==
    CASE verdict = "SUPPORTED" -> evidence.supporting
      [] verdict = "FALSE" -> evidence.contradicting
      [] verdict = "MISLEADING" -> evidence.contradicting \o evidence.supporting
      [] OTHER -> evidence.supporting \o evidence.contradicting \o evidence.inconclusive

\* selectCitations without the sort
selectCitationsUnsorted(evidence, verdict) ==
    LET relevant == RelevantEvidence(evidence, verdict)
        topSources == SubSeq(relevant, 1, Min2(3, Len(relevant)))
    IN [i \in DOMAIN topSources |->
           [ source |-> topSources[i].source,
             url |-> topSources[i].url,
             snippet |-> topSources[i].snippet ]]

selectCitations(evidence, verdict) ==
    LET sorted == SortBy(RelevantEvidence(evidence, verdict), "authority")
        topSources == SubSeq(sorted, 1, Min2(3, Len(sorted)))
    IN [i \in DOMAIN topSources |->
           [ source |-> topSources[i].source,
             url |-> topSources[i].url,
             snippet |-> topSources[i].snippet ]]

getConfidenceLevel(confidence) ==
    IF confidence >= 80 THEN "very likely"
    ELSE IF confidence >= 60 THEN "likely"
    ELSE IF confidence >= 40 THEN "possibly"
    ELSE "tentatively"

formatTopSources(evidence) ==
    LET sorted == SortBy(evidence, "authority")
        topTwo == [i \in 1..Min2(2, Len(sorted)) |-> sorted[i].source]
    IN IF Len(topTwo) = 0 THEN <<"various sources">>
       ELSE IF Len(topTwo) = 1 THEN <<topTwo[1]>>
       ELSE <<topTwo[1], " and ", topTwo[2]>>

\* `${n}` for a number n >= 0: its decimal digits
DIGITS == <<"0", "1", "2", "3", "4", "5", "6", "7", "8", "9">>

RECURSIVE NumberText(_)
NumberText(n) ==
    IF n < 10 THEN <<DIGITS[n + 1]>>
    ELSE NumberText(n \div 10) \o <<DIGITS[(n % 10) + 1]>>

\* An explanation is the sequence of the pieces the template string joins.
generateExplanation(claim, evidence, verdict, confidence) ==
    LET supporting == evidence.supporting
        contradicting == evidence.contradicting
        totalSources == evidence.totalSources
        confidenceLevel == getConfidenceLevel(confidence)
    IN CASE verdict = "SUPPORTED" ->
              <<"This claim appears to be ", confidenceLevel, " supported. ">> \o NumberText(Len(supporting)) \o
              <<" source", IF Len(supporting) > 1 THEN "s" ELSE "",
                " confirm this claim, ", "including ">>
                  \o formatTopSources(supporting) \o <<".">>
         [] verdict = "FALSE" ->
              <<"This claim appears to be ", confidenceLevel, " false. ">>
                  \o NumberText(Len(contradicting)) \o
              <<" source",
                IF Len(contradicting) > 1 THEN "s" ELSE "",
                " contradict this claim, ", "including ">>
                  \o formatTopSources(contradicting) \o <<".">>
         [] verdict = "MISLEADING" ->
              <<"This claim is misleading. While some elements may be accurate, ">>
                  \o NumberText(Len(contradicting)) \o
              <<" source",
                IF Len(contradicting) > 1 THEN "s" ELSE "",
                " identify significant issues. ",
                "The claim lacks important context or contains inaccuracies.">>
         [] OTHER ->
              IF totalSources = 0
              THEN <<"Unable to verify this claim. No relevant sources were found.">>
              ELSE <<"Unable to determine the accuracy of this claim with confidence. ">>
                     \o NumberText(totalSources) \o
                   <<" source",
                     IF totalSources > 1 THEN "s were" ELSE " was", " analyzed, ",
                     "but the evidence is inconclusive or conflicting.">>

\* months of 30 days, as (1000 * 60 * 60 * 24 * 30) ms
DAYS_PER_MONTH == 30

\* monthsAgo < months for a dated item, monthsAgo being counted from
\* Date.now() of the call: today is the day of the call, in days from the
\* start of the model
PublishedWithin(e, months, today) ==
    e.publishedDate.has /\ (today - e.publishedDate.day) < months * DAYS_PER_MONTH

\* new URL(e.url).hostname, or e.source when the URL does not parse
DomainOf(e) == IF e.url.ok THEN e.url.host ELSE <<e.source>>

checkSourceDiversity(evidence, today) ==
    LET allEvidence == evidence.supporting \o evidence.contradicting
                         \o evidence.inconclusive
        n == Len(allEvidence)
        domains == { DomainOf(allEvidence[i]) : i \in DOMAIN allEvidence }
        hasHighAuthority == \E i \in DOMAIN allEvidence : HighAuthority(allEvidence[i])
        recentSources == SelectSeq(allEvidence, LAMBDA e : PublishedWithin(e, 12, today))
    IN IF n = 0 THEN <<>>
       ELSE (IF Cardinality(domains) < 3 /\ n >= 3
             THEN <<"Limited source diversity: Most sources are from similar domains.">>
             ELSE <<>>)
         \o (IF ~ hasHighAuthority /\ n >= 2
             THEN <<"No high-authority sources (e.g., .gov, major news) found.">>
             ELSE <<>>)
         \o (IF SumAuthority(allEvidence) < 40 * n
             THEN <<"Source quality is below average. Verify with additional sources.">>
             ELSE <<>>)
         \o (IF Len(recentSources) = 0 /\ n >= 2
             THEN <<"No recent sources found. Information may be outdated.">>
             ELSE <<>>)

\* factors.join(', ')
RECURSIVE JoinFactors(_)
JoinFactors(factors) ==
    IF Len(factors) <= 1 THEN factors
    ELSE <<Head(factors), ", ">> \o JoinFactors(Tail(factors))

generateConfidenceExplanation(evidence, verdict, confidence, today) ==
    LET totalSources == evidence.totalSources
        allEvidence == evidence.supporting \o evidence.contradicting
                         \o evidence.inconclusive
        score == evidence.consensusScore
        highAuthorityCount == Len(SelectSeq(allEvidence, HighAuthority))
        recentCount == Len(SelectSeq(allEvidence, LAMBDA e : PublishedWithin(e, 6, today)))
        factors ==
            (IF totalSources >= 5 THEN <<"multiple sources analyzed">>
             ELSE IF totalSources <= 2 THEN <<"limited sources available">>
             ELSE <<>>)
          \o (IF 100 * Abs(score.num) >= 80 * score.den
                  THEN <<"strong consensus among sources">>
              ELSE IF 100 * Abs(score.num) <= 30 * score.den
                  THEN <<"mixed or weak consensus">>
              ELSE <<>>)
          \o (IF highAuthorityCount >= 2 THEN <<"includes high-authority sources">>
              ELSE IF highAuthorityCount = 0 /\ Len(allEvidence) > 0
                  THEN <<"no high-authority sources">>
              ELSE <<>>)
          \o (IF recentCount >= 2 THEN <<"recent sources">> ELSE <<>>)
          \o (IF verdict = "MISLEADING"
              THEN <<"claim contains both accurate and inaccurate elements">>
              ELSE <<>>)
    IN IF Len(factors) = 0
       THEN <<"Confidence of ">> \o NumberText(confidence)
              \o <<"% based on available evidence.">>
       ELSE <<"Confidence of ">> \o NumberText(confidence) \o <<"%: ">>
              \o JoinFactors(factors) \o <<".">>

\* warnings is <<>> where the code leaves the field undefined
VerdictWith(claim, evidence, verdictLabel, confidence, today) ==
    [ claimId |-> claim.id,
      verdict |-> verdictLabel,
      confidence |-> confidence,
      explanation |-> generateExplanation(claim, evidence, verdictLabel, confidence),
      citations |-> selectCitations(evidence, verdictLabel),
      warnings |-> checkSourceDiversity(evidence, today),
      confidenceExplanation |->
          generateConfidenceExplanation(evidence, verdictLabel, confidence, today) ]

VerdictLabelled(claim, evidence, verdictLabel, today) ==
    VerdictWith(claim, evidence, verdictLabel,
                calculateConfidence(evidence, verdictLabel), today)

\* generateVerdict(claim, evidence) called on day today (Date.now() is read
\* by checkSourceDiversity and generateConfidenceExplanation)
generateVerdict(claim, evidence, today) ==
    VerdictLabelled(claim, evidence, determineVerdictLabel(evidence), today)

\* the evidence object after generateVerdict(claim, evidence): selectCitations
\* sorts evidence.supporting (SUPPORTED) or evidence.contradicting (FALSE)
\* itself, and formatTopSources sorts the same array again; for the other
\* labels a copy is sorted
EvidenceAfterVerdict(evidence) ==
    LET verdict == determineVerdictLabel(evidence)
    IN CASE verdict = "SUPPORTED" ->
              [evidence EXCEPT !.supporting = SortBy(@, "authority")]
         [] verdict = "FALSE" ->
              [evidence EXCEPT !.contradicting = SortBy(@, "authority")]
         [] OTHER -> evidence

\* ------------------------------------------------------------------------
\* Claim extraction (claimExtractor.ts) on token texts.  The letter case of
\* the input is dropped: every consumer lower-cases the text first.
\* ------------------------------------------------------------------------
OPINION_MARKERS ==
    << { <<"i", "think">>, <<"i", "believe">>, <<"i", "feel">>,
         <<"in", "my", "opinion">>, <<"personally">>, <<"arguably">>,
         <<"seems", "to", "me">> },
       { <<"best">>, <<"worst">>, <<"greatest">>, <<"terrible">>, <<"amazing">>,
         <<"horrible">>, <<"beautiful">>, <<"ugly">> },
       { <<"should">>, <<"ought", "to">>, <<"must">>, <<"need", "to">> },
       { <<"love">>, <<"hate">>, <<"like">>, <<"dislike">>, <<"prefer">> },
       { <<"overrated">>, <<"underrated">> } >>

\* a number token of exactly four digits
IsYearNumber(t) == IsNumber(t) /\ Len(t) = 4

\* /\b(will|going to|gonna|about to)\b.*\b(be|become|happen|occur)\b/
FutureThenEvent(text) ==
    \E i \in DOMAIN text :
        \E a \in { <<"will">>, <<"going", "to">>, <<"gonna">>, <<"about", "to">> } :
            /\ PhraseAt(text, i, a)
            /\ \E j \in (i + Len(a))..Len(text) :
                   text[j] \in {"be", "become", "happen", "occur"}

PREDICTION_PHRASES ==
    << { <<"in", "the", "future">>, <<"next", "year">>, <<"soon">>, <<"eventually">> },
       { <<"predict">>, <<"forecast">>, <<"expect">>, <<"anticipate">> },
       { <<"likely", "to">>, <<"probably", "will">>, <<"might">>,
         <<"could", "potentially">> } >>

\* some PREDICTION_MARKERS pattern matches
IsPrediction(text) ==
    \/ FutureThenEvent(text)
    \/ \E i \in DOMAIN text : text[i] = "by" /\ IsYearNumber(TokenAt(text, i + 1))
    \/ \E k \in DOMAIN PREDICTION_PHRASES : TestPhrases(text, PREDICTION_PHRASES[k])

\* /\b(this|that|it|they|them|he|she)\b(?! is| are| was| were| has| have| had)/
BarePronoun(text) ==
    \E i \in DOMAIN text :
        /\ text[i] \in {"this", "that", "it", "they", "them", "he", "she"}
        /\ ~ \E p \in {"is", "are", "was", "were", "has", "have", "had"} :
                 HasPrefix(TokenAt(text, i + 1), p)

\* some AMBIGUITY_MARKERS pattern matches
IsAmbiguous(text) ==
    \/ BarePronoun(text)
    \/ TestPhrases(text, { <<"some">>, <<"many">>, <<"few">>, <<"several">>,
                           <<"various">>, <<"certain">> })
    \/ TestPhrases(text, { <<"stuff">>, <<"things">>, <<"something">>,
                           <<"somewhere">> })
    \/ TokenAt(text, 1) \in {"and", "but", "or", "so", "because", "however"}

\* some FACTUAL_INDICATORS pattern matches (the token texts hold no
\* "d/d/d" date and no "%" followed by a letter)
HasFactualIndicator(text) ==
    \/ TestPhrases(text, { <<"is">>, <<"are">>, <<"was">>, <<"were">>,
                           <<"has", "been">>, <<"have", "been">> })
    \/ \E i \in DOMAIN text : text[i] = "in" /\ IsYearNumber(TokenAt(text, i + 1))
    \/ TestPhrases(text, { <<"born">>, <<"died">>, <<"founded">>, <<"established">> })
    \/ TestPhrases(text, { <<"located", "in">>, <<"capital", "of">>,
                           <<"population", "of">>, <<"invented">>, <<"discovered">> })
    \/ \E i \in DOMAIN text :
           IsNumber(text[i]) /\ TokenAt(text, i + 1) \in {"percent", "million", "billion"}
    \/ TestPhrases(text, { <<"according", "to">>, <<"research", "shows">>,
                           <<"studies", "show">>, <<"data", "shows">> })

IMPERATIVES ==
    { "do", "don't", "please", "let's", "go", "come", "stop", "start", "make",
      "take", "give", "put", "get", "try", "look", "think", "be", "have" }

isDeclarativeStatement(text) ==
    /\ TokenAt(text, Len(text)) # "?"
    /\ TokenAt(text, 1) \notin IMPERATIVES

\* the cascade with the factual indicators tested before the opinion markers
classifyClaimFactualFirst(text) ==
    IF HasFactualIndicator(text) THEN "FACTUAL"
    ELSE IF \E k \in DOMAIN OPINION_MARKERS : TestPhrases(text, OPINION_MARKERS[k])
        THEN "OPINION"
    ELSE IF IsPrediction(text) THEN "PREDICTION"
    ELSE IF IsAmbiguous(text) THEN "AMBIGUOUS"
    ELSE IF isDeclarativeStatement(text) THEN "FACTUAL"
    ELSE "AMBIGUOUS"

classifyClaim(text) ==
    IF \E k \in DOMAIN OPINION_MARKERS : TestPhrases(text, OPINION_MARKERS[k])
        THEN "OPINION"
    ELSE IF IsPrediction(text) THEN "PREDICTION"
    ELSE IF IsAmbiguous(text) /\ ~ HasFactualIndicator(text) THEN "AMBIGUOUS"
    ELSE IF HasFactualIndicator(text) THEN "FACTUAL"
    ELSE IF isDeclarativeStatement(text) THEN "FACTUAL"
    ELSE "AMBIGUOUS"

\* text.length: the tokens and the single blanks between them (a
\* punctuation mark is written against the token before it)
RECURSIVE TextLength(_)
TextLength(text) ==
    IF text = <<>> THEN 0
    ELSE LET n == Len(text)
         IN TextLength(SubSeq(text, 1, n - 1)) + Len(text[n])
              + (IF n > 1 /\ ~ IsPunct(text[n]) THEN 1 ELSE 0)

\* splitIntoSentences: cut after ". ", "! " and "? "; a period that follows
\* a digit is protected and does not cut
SentenceEnds(text) ==
    { i \in 1..(Len(text) - 1) :
        /\ text[i] \in {".", "!", "?"}
        /\ ~ IsPunct(text[i + 1])
        /\ ~ (text[i] = "." /\ IsNumber(TokenAt(text, i - 1))) }

RECURSIVE splitIntoSentences(_)
splitIntoSentences(text) ==
    IF text = <<>> THEN <<>>
    ELSE IF SentenceEnds(text) = {} THEN <<text>>
    ELSE LET i == MinOfSet(SentenceEnds(text))
         IN <<SubSeq(text, 1, i)>> \o splitIntoSentences(SubSeq(text, i + 1, Len(text)))

\* the words of verbPattern
VERBS ==
    { "is", "are", "was", "were", "has", "have", "had", "do", "does", "did",
      "can", "could", "will", "would", "should", "may", "might", "been",
      "being", "made", "said", "went", "came", "took", "gave", "found",
      "thought", "knew", "saw", "got", "became", "let", "began", "put", "run",
      "bring", "become", "grow", "draw", "show", "hear", "play", "move",
      "live", "die", "work", "use", "seem", "feel", "try", "leave", "call",
      "keep", "hold", "turn", "allow", "start", "stand", "lose", "pay",
      "meet", "include", "continue", "set", "learn", "change", "lead",
      "understand", "watch", "follow", "stop", "create", "speak", "read",
      "spend", "win", "happen", "provide", "sit", "buy", "send", "build",
      "stay", "fall", "cut", "reach", "kill", "raise", "pass", "sell",
      "decide", "return", "explain", "hope", "develop", "carry", "break",
      "receive", "agree", "support", "hit", "produce", "eat", "cover",
      "catch", "require", "believe", "remember", "love", "consider", "appear",
      "walk", "wait", "serve", "remain", "offer", "fight", "throw", "accept",
      "save", "perform", "act", "add", "cause", "point", "suggest", "answer",
      "charge", "join", "enjoy", "teach", "enter", "fear" }

containsSubjectAndVerb(text) ==
    /\ Cardinality({ i \in DOMAIN text : ~ IsPunct(text[i]) \/ i = 1 }) >= 2
    /\ \E i \in DOMAIN text : text[i] \in VERBS

\* positions where /(?:,?\s+(?:and|but|or|yet)\s+|;\s*)/ can match: a
\* conjunction with a blank on both sides, or a semicolon
Separators(text) ==
    { i \in DOMAIN text :
        \/ text[i] = ";"
        \/ /\ text[i] \in {"and", "but", "or", "yet"}
           /\ i > 1
           /\ i < Len(text)
           /\ ~ IsPunct(text[i + 1]) }

\* sentence.split(...): the pieces between the matches, left to right
RECURSIVE SplitParts(_)
SplitParts(text) ==
    IF Separators(text) = {} THEN <<text>>
    ELSE LET i == MinOfSet(Separators(text))
             before == IF text[i] # ";" /\ text[i - 1] = ","
                       THEN SubSeq(text, 1, i - 2)
                       ELSE SubSeq(text, 1, i - 1)
         IN <<before>> \o SplitParts(SubSeq(text, i + 1, Len(text)))

ValidPart(part) == TextLength(part) >= 10 /\ containsSubjectAndVerb(part)

splitIntoAtomicClaims(sentence) ==
    IF TextLength(sentence) < 50 THEN <<sentence>>
    ELSE LET validParts == SelectSeq(SplitParts(sentence), ValidPart)
         IN IF Len(validParts) < 2 THEN <<sentence>> ELSE validParts

\* the first position from which the text ends in a trailing attribution
\* /,?\s*(according to [^.]+|experts say|sources report)\.?$/, 0 when none
TrailingAttribution(text) ==
    LET n == Len(text)
        body == IF TokenAt(text, n) = "." THEN n - 1 ELSE n
        starts == { i \in DOMAIN text :
                      \/ /\ PhraseAt(text, i, <<"according", "to">>)
                         /\ i + 2 <= body
                         /\ ~ IsPunct(text[i + 2])
                         /\ \A j \in (i + 2)..body : text[j] # "."
                      \/ /\ i + 1 = body
                         /\ \/ PhraseAt(text, i, <<"experts", "say">>)
                            \/ PhraseAt(text, i, <<"sources", "report">>) }
    IN IF starts = {} THEN 0
       ELSE LET i == MinOfSet(starts)
            IN IF TokenAt(text, i - 1) = "," THEN i - 1 ELSE i

\* text without its first n tokens
Drop(text, n) == SubSeq(text, n + 1, Len(text))

\* /^(it is (said|claimed|reported|alleged|believed) that\s*)/ removed
StripSaid(text) ==
    IF /\ PhraseAt(text, 1, <<"it", "is">>)
       /\ TokenAt(text, 3) \in {"said", "claimed", "reported", "alleged", "believed"}
       /\ TokenAt(text, 4) = "that"
    THEN Drop(text, 4) ELSE text

\* /^(according to [^,]+,\s*)/ removed
StripAccording(text) ==
    IF /\ PhraseAt(text, 1, <<"according", "to">>)
       /\ ~ IsPunct(TokenAt(text, 3))
       /\ \E c \in 4..Len(text) : text[c] = ","
    THEN Drop(text, MinOfSet({ c \in 4..Len(text) : text[c] = "," })) ELSE text

\* /^(some (people |experts )?say (that\s*)?)/ removed
StripSome(text) ==
    LET say == IF TokenAt(text, 2) \in {"people", "experts"} THEN 3 ELSE 2
    IN IF /\ TokenAt(text, 1) = "some"
          /\ TokenAt(text, say) = "say"
          /\ say < Len(text)
          /\ ~ IsPunct(text[say + 1])
       THEN (IF text[say + 1] = "that" THEN Drop(text, say + 1) ELSE Drop(text, say))
       ELSE text

\* /^(it'?s? (obvious|clear|evident) that\s*)/ removed
StripObvious(text) ==
    IF /\ TokenAt(text, 1) \in {"it", "its", "it's"}
       /\ TokenAt(text, 2) \in {"obvious", "clear", "evident"}
       /\ TokenAt(text, 3) = "that"
    THEN Drop(text, 3) ELSE text

\* the trailing attribution, which starts at token t, removed (t = 0: none)
CutAt(unprefixed, t) ==
    IF t = 0 THEN unprefixed ELSE SubSeq(unprefixed, 1, t - 1)

StripTrailing(unprefixed) == CutAt(unprefixed, TrailingAttribution(unprefixed))

\* if (neutralized.length > 0 && !/[.!?]$/.test(neutralized)) neutralized += '.'
WithFinalPunctuation(neutralized) ==
    IF neutralized # <<>> /\ neutralized[Len(neutralized)] \notin {".", "!", "?"}
    THEN neutralized \o <<".">>
    ELSE neutralized

rephraseToNeutral(text) ==
    WithFinalPunctuation(
        StripTrailing(StripObvious(StripSome(StripAccording(StripSaid(text))))))

isRhetoricalQuestion(text) ==
    /\ \E i \in DOMAIN text : text[i] = "?"
    /\ \/ /\ TokenAt(text, 1) \in {"who", "what", "where", "when", "why", "how"}
          /\ TokenAt(text, 2) \in {"cares", "knows", "would", "could", "can"}
          /\ TokenAt(text, 3) = "?"
       \/ /\ PhraseAt(text, 1, <<"isn't", "it">>)
          /\ \E w \in {"obvious", "clear", "true"} : HasPrefix(TokenAt(text, 3), w)
       \/ \E i \in DOMAIN text : text[i] = "?" /\ TokenAt(text, i + 1) = "?"
       \/ /\ TokenAt(text, 1) \in {"really", "seriously", "honestly"}
          /\ TokenAt(text, 2) = "?"

\* the fragments extractClaims keeps
KeepFragment(claimText) ==
    /\ TextLength(claimText) >= 10
    /\ containsSubjectAndVerb(claimText)
    /\ ~ isRhetoricalQuestion(claimText)

\* generateClaimId(): `claim_${Date.now()}_${random}`, an opaque string; the
\* random suffixes of one extraction are taken to differ, k numbers them
generateClaimId(k) == <<"claim", k>>

\* Step 3 of extractClaims on the fragments that are kept
ClassifiedClaims(kept) ==
    [ k \in DOMAIN kept |->
        [ id |-> generateClaimId(k),
          text |-> rephraseToNeutral(kept[k]),
          originalText |-> kept[k],
          classification |-> classifyClaim(kept[k]) ] ]

\* Step 2 of extractClaims
AtomicClaims(sentences) ==
    Flatten([i \in DOMAIN sentences |-> splitIntoAtomicClaims(sentences[i])])

extractClaims(text) ==
    ClassifiedClaims(SelectSeq(AtomicClaims(splitIntoSentences(text)), KeepFragment))

IsFactual(claim) == claim.classification = "FACTUAL"

\* getFactualClaims with a filter that only drops opinions
getFactualClaimsNotOpinion(claims) ==
    SelectSeq(claims, LAMBDA claim : claim.classification # "OPINION")

getFactualClaims(claims) == SelectSeq(claims, IsFactual)

\* ------------------------------------------------------------------------
\* Search queries (tavily.ts)
\* ------------------------------------------------------------------------
\* claimText.replace(/\.$/, '')
WithoutFinalPeriod(text) ==
    IF TokenAt(text, Len(text)) = "." THEN SubSeq(text, 1, Len(text) - 1) ELSE text

\* text.replace(/\b(w1|w2|...)\b/i, match => `${match} not`): "not" goes
\* after the first of the words, the text comes back unchanged without one
NegateFirst(text, words) ==
    LET at == { i \in DOMAIN text : text[i] \in words }
    IN IF at = {} THEN text
       ELSE LET i == MinOfSet(at)
            IN SubSeq(text, 1, i) \o <<"not">> \o SubSeq(text, i + 1, Len(text))

generateNegatedQuery(claimText) ==
    LET negatedBe == NegateFirst(claimText, {"is", "are", "was", "were"})
        negatedHave == NegateFirst(claimText, {"has", "have", "had"})
    IN IF negatedBe # claimText THEN negatedBe
       ELSE IF negatedHave # claimText THEN negatedHave
       ELSE <<"debunked", ":">> \o WithoutFinalPeriod(claimText)

generateSearchQueries(claim) ==
    << claim.text,
       <<"fact", "check", ":">> \o WithoutFinalPeriod(claim.text),
       generateNegatedQuery(claim.text) >>

\* ------------------------------------------------------------------------
\* Rate limiter (utils/rateLimiter.ts).  Times are milliseconds.
\* ------------------------------------------------------------------------
maxRequests == 10
windowMs == 60 * 1000

\* cleanupOldRequests that keeps a request made exactly windowMs ago
cleanupOldRequestsInclusive(reqs, t) ==
    LET cutoff == t - windowMs
    IN SelectSeq(reqs, LAMBDA time : time >= cutoff)

\* cleanupOldRequests() at time t
cleanupOldRequests(reqs, t) ==
    LET cutoff == t - windowMs
    IN SelectSeq(reqs, LAMBDA time : time > cutoff)

\* canMakeRequest() at time t (it cleans up first)
canMakeRequest(reqs, t) == Len(cleanupOldRequests(reqs, t)) < maxRequests

\* getRemainingRequests() at time t
getRemainingRequests(reqs, t) ==
    Max2(0, maxRequests - Len(cleanupOldRequests(reqs, t)))

\* getTimeUntilNextSlot() at time t
getTimeUntilNextSlot(reqs, t) ==
    IF canMakeRequest(reqs, t) THEN 0
    ELSE LET oldestRequest == MinOfSet(Range(cleanupOldRequests(reqs, t)))
             expiryTime == oldestRequest + windowMs
         IN Max2(0, expiryTime - t)

\* checkRateLimit() at time t: whether it returns, and the waitSeconds of
\* the RateLimitError it throws otherwise
checkRateLimit(reqs, t) ==
    IF ~ canMakeRequest(reqs, t)
    THEN [ok |-> FALSE, waitSeconds |-> CeilDiv(getTimeUntilNextSlot(reqs, t), 1000)]
    ELSE [ok |-> TRUE, waitSeconds |-> 0]

\* recordRequest() at time t
recordRequest(reqs, t) == Append(reqs, t)

\* ------------------------------------------------------------------------
\* Verification cache (utils/cache.ts).  A claim text is the sequence of its
\* characters; times are milliseconds.
\* ------------------------------------------------------------------------
DEFAULT_MAX_AGE == 24 * 60 * 60 * 1000
MAX_CACHE_SIZE == 100

UPPER_CASE ==
    << "A", "B", "C", "D", "E", "F", "G", "H", "I", "J", "K", "L", "M",
       "N", "O", "P", "Q", "R", "S", "T", "U", "V", "W", "X", "Y", "Z" >>

LOWER_CASE ==
    << "a", "b", "c", "d", "e", "f", "g", "h", "i", "j", "k", "l", "m",
       "n", "o", "p", "q", "r", "s", "t", "u", "v", "w", "x", "y", "z" >>

\* the lower-case letter of each upper-case letter
LOWER_OF ==
    [ c \in Range(UPPER_CASE) |->
        LOWER_CASE[CHOOSE k \in DOMAIN UPPER_CASE : UPPER_CASE[k] = c] ]

\* c.toLowerCase() for one character
LowerChar(c) == IF c \in DOMAIN LOWER_OF THEN LOWER_OF[c] ELSE c

\* text.toLowerCase()
toLowerCase(text) == [i \in DOMAIN text |-> LowerChar(text[i])]

\* \s
IsWhitespace(c) == c \in {" ", "\t", "\n"}

\* the characters of \w
WORD_CHARS == Range(LOWER_CASE) \cup Range(UPPER_CASE) \cup Range(DIGITS) \cup {"_"}

IsWordChar(c) == c \in WORD_CHARS

\* text.replace(/[^\w\s]/g, '')
RemovePunctuation(text) ==
    SelectSeq(text, LAMBDA c : IsWordChar(c) \/ IsWhitespace(c))

\* text.replace(/\s+/g, ' '): inRun says that the character before was
\* whitespace
RECURSIVE CollapseWhitespace(_, _)
CollapseWhitespace(text, inRun) ==
    IF text = <<>> THEN <<>>
    ELSE IF IsWhitespace(Head(text))
         THEN (IF inRun THEN <<>> ELSE <<" ">>) \o CollapseWhitespace(Tail(text), TRUE)
         ELSE <<Head(text)>> \o CollapseWhitespace(Tail(text), FALSE)

\* text.trim()
RECURSIVE Trim(_)
Trim(text) ==
    IF text = <<>> THEN <<>>
    ELSE IF IsWhitespace(Head(text)) THEN Trim(Tail(text))
    ELSE IF IsWhitespace(text[Len(text)]) THEN Trim(SubSeq(text, 1, Len(text) - 1))
    ELSE text

normalizeClaimText(text) ==
    Trim(CollapseWhitespace(RemovePunctuation(toLowerCase(text)), FALSE))

\* result[CACHE_KEY] || { verifications: [], maxAge: DEFAULT_MAX_AGE }
EMPTY_CACHE == [verifications |-> <<>>, maxAge |-> DEFAULT_MAX_AGE]

\* getCachedVerifications() at time t
getCachedVerifications(stored, t) ==
    SelectSeq(stored.verifications, LAMBDA v : t - v.timestamp < stored.maxAge)

\* getCachedVerdict(claimText) at time t: the first match, or null
getCachedVerdict(stored, claimText, t) ==
    LET verifications == getCachedVerifications(stored, t)
        normalizedClaim == normalizeClaimText(claimText)
        matches == { i \in DOMAIN verifications :
                       \/ normalizeClaimText(verifications[i].claim.text) = normalizedClaim
                       \/ normalizeClaimText(verifications[i].claim.originalText)
                            = normalizedClaim }
    IN IF matches = {} THEN [found |-> FALSE]
       ELSE [found |-> TRUE, entry |-> verifications[MinOfSet(matches)]]

\* cacheVerification without the removal of the existing entry of the claim
cacheVerificationKeepsOld(stored, claim, verdict, searchQueries, t) ==
    LET unshifted == << [ claim |-> claim, verdict |-> verdict, timestamp |-> t,
                          searchQueries |-> searchQueries ] >>
                       \o getCachedVerifications(stored, t)
    IN [ verifications |-> SubSeq(unshifted, 1, Min2(Len(unshifted), MAX_CACHE_SIZE)),
         maxAge |-> DEFAULT_MAX_AGE ]

\* cacheVerification(claim, verdict, searchQueries) at time t: what it stores
cacheVerification(stored, claim, verdict, searchQueries, t) ==
    LET verifications == getCachedVerifications(stored, t)
        newEntry == [ claim |-> claim, verdict |-> verdict, timestamp |-> t,
                      searchQueries |-> searchQueries ]
        normalizedClaim == normalizeClaimText(claim.text)
        filtered == SelectSeq(verifications,
                              LAMBDA v : normalizeClaimText(v.claim.text) # normalizedClaim)
        unshifted == <<newEntry>> \o filtered
    IN [ verifications |-> SubSeq(unshifted, 1, Min2(Len(unshifted), MAX_CACHE_SIZE)),
         maxAge |-> DEFAULT_MAX_AGE ]

\* ------------------------------------------------------------------------
\* The search provider (the endpoint executeTavilySearch posts to)
\* ------------------------------------------------------------------------
PAGE_REUTERS ==
    [ url |-> [ok |-> TRUE, host |-> <<"r","e","u","t","e","r","s",".","c","o","m">>,
               path |-> "facebook-history"],
      content |-> <<"mark", "zuckerberg", "founded", "facebook", "in", "2004">>,
      raw_content |-> <<>>,
      published_date |-> [has |-> TRUE, day |-> -30] ]

PAGE_SNOPES ==
    [ url |-> [ok |-> TRUE, host |-> <<"s","n","o","p","e","s",".","c","o","m">>,
               path |-> "fact-check"],
      content |-> <<"rating", ":", "true">>,
      raw_content |-> <<"rating", ":", "true", ".", "facebook", "was", "founded",
                        "by", "mark", "zuckerberg">>,
      published_date |-> NoDate ]

PAGE_WIKIPEDIA ==
    [ url |-> [ok |-> TRUE,
               host |-> <<"e","n",".","w","i","k","i","p","e","d","i","a",".","o","r","g">>,
               path |-> "Facebook"],
      content |-> <<"facebook", "has", "300", "million", "users">>,
      raw_content |-> <<>>,
      published_date |-> [has |-> TRUE, day |-> -400] ]

PAGE_TWITTER ==
    [ url |-> [ok |-> TRUE, host |-> <<"t","w","i","t","t","e","r",".","c","o","m">>,
               path |-> "status"],
      content |-> <<"the", "facebook", "story", "is", "a", "hoax">>,
      raw_content |-> <<>>,
      published_date |-> NoDate ]

\* data.results of a successful call: what the provider's index holds for
\* the three query forms
TavilyResults(query) ==
    IF PhraseAt(query, 1, <<"fact", "check", ":">>)
        THEN <<PAGE_SNOPES, PAGE_REUTERS>>
    ELSE IF \E i \in DOMAIN query : query[i] \in {"not", "debunked"}
        THEN <<PAGE_TWITTER, PAGE_WIKIPEDIA>>
    ELSE <<PAGE_REUTERS, PAGE_TWITTER>>

\* the loop body of searchForEvidence without the test of seenUrls
DeduplicateKeepsAll(all, results) == all \o results

\* the loop body of searchForEvidence on a successful call: append the
\* results whose URL was not seen
RECURSIVE Deduplicate(_, _)
Deduplicate(all, results) ==
    IF results = <<>> THEN all
    ELSE Deduplicate(
           IF \E i \in DOMAIN all : all[i].url = Head(results).url
           THEN all ELSE Append(all, Head(results)),
           Tail(results))

\* ------------------------------------------------------------------------
\* The verification pipeline (background service worker)
\* ------------------------------------------------------------------------
pipelineVars ==
    << now, ticks, requests, apiKey, pc, runApiKey, allClaims, idx, verdicts,
       queryIdx, allResults, result, outages, searchLog, statusLog, authRejected >>

\* the sentences a selected text is made of
SENTENCES ==
    { <<"facebook", "was", "founded", "by", "mark", "zuckerberg", ".">>,
      <<"i", "think", "pizza", "is", "the", "best", "food", ".">> }

\* a sentence that holds no claim and sentences of the other two non-factual
\* classes; verifyText treats every non-factual claim alike, so they are
\* verified as texts of their own
OTHER_SENTENCES ==
    { <<"wow", "!">>,
      <<"it", "will", "be", "sunny", "soon", ".">>,
      <<"they", "did", "some", "stuff", ".">> }

RECURSIVE TextsOf(_)
TextsOf(n) ==
    IF n = 0 THEN { <<>> }
    ELSE TextsOf(n - 1) \cup { t \o s : t \in TextsOf(n - 1), s \in SENTENCES }

\* a text that states the same fact n times
RECURSIVE Repeated(_)
Repeated(n) ==
    IF n = 0 THEN <<>>
    ELSE Repeated(n - 1) \o <<"facebook", "was", "founded", "by", "mark", "zuckerberg", ".">>

\* the texts a VERIFY_TEXT message can carry
Texts == TextsOf(MaxSentences) \cup OTHER_SENTENCES \cup { Repeated(MaxRepeats) }

\* extractClaims over the texts, computed once
EXTRACTED == [t \in Texts |-> extractClaims(t)]

API_KEYS == {"tvly-valid", "tvly-rejected"}

NO_API_KEY_ERROR ==
    "No API key configured. Please add your Tavily API key in settings."
NO_CLAIMS_ERROR == "No verifiable claims found in the text."
AUTH_FAILED_MESSAGE == "API authentication failed. Please check your Tavily API key."
SEARCH_FAILED_MESSAGE == "Search failed. Please try again later."

\* a response of verifyText; error is <<>> when the field is absent
Response(claims, vs, error) ==
    [sent |-> TRUE, claims |-> claims, verdicts |-> vs, error |-> error]

NoResponse == [sent |-> FALSE, claims |-> <<>>, verdicts |-> <<>>, error |-> <<>>]

\* the placeholder with the wait given in milliseconds
RateLimitPlaceholderMilliseconds(claim, waitSeconds) ==
    [ claimId |-> claim.id,
      verdict |-> "INSUFFICIENT_EVIDENCE",
      confidence |-> 0,
      explanation |-> <<"Rate limited. Please wait ">> \o NumberText(waitSeconds * 1000)
                        \o <<" seconds before trying again.">>,
      citations |-> <<>>,
      warnings |-> <<>>,
      confidenceExplanation |-> <<>> ]

\* the placeholder pushed for a RateLimitError (fields the code leaves out
\* are <<>>)
RateLimitPlaceholder(claim, waitSeconds) ==
    [ claimId |-> claim.id,
      verdict |-> "INSUFFICIENT_EVIDENCE",
      confidence |-> 0,
      explanation |-> <<"Rate limited. Please wait ">> \o NumberText(waitSeconds)
                        \o <<" seconds before trying again.">>,
      citations |-> <<>>,
      warnings |-> <<>>,
      confidenceExplanation |-> <<>> ]

\* the placeholder pushed for a TavilyError
TavilyErrorPlaceholder(claim, isAuthError) ==
    [ claimId |-> claim.id,
      verdict |-> "INSUFFICIENT_EVIDENCE",
      confidence |-> 0,
      explanation |-> IF isAuthError THEN <<AUTH_FAILED_MESSAGE>>
                      ELSE <<SEARCH_FAILED_MESSAGE>>,
      citations |-> <<>>,
      warnings |-> <<>>,
      confidenceExplanation |-> <<>> ]

\* TavilyError.isAuthError()
isAuthError(statusCode) == statusCode = 401 \/ statusCode = 403

factualClaims == getFactualClaims(allClaims)

\* what searchForEvidence can return for a list of queries, from query i on
\* with allResults = all: each call adds its results or throws and adds none
RECURSIVE SearchOutcomes(_, _, _)
SearchOutcomes(queries, i, all) ==
    IF i > Len(queries) THEN { all }
    ELSE SearchOutcomes(queries, i + 1, Deduplicate(all, TavilyResults(queries[i])))
         \cup SearchOutcomes(queries, i + 1, all)

\* the factual claims of the texts
FACTUAL_CLAIMS == UNION { Range(getFactualClaims(EXTRACTED[t])) : t \in Texts }

\* verifyText: processSearchResults(claim, searchResults) and then
\* generateVerdict(claim, evidence), computed once per claim and result list;
\* a run of the pipeline lies within day 0
VERDICTS ==
    [ c \in FACTUAL_CLAIMS |->
        [ m \in SearchOutcomes(generateSearchQueries(c), 1, <<>>) |->
            generateVerdict(c, processSearchResults(c, m), 0) ] ]

\* executeTavilySearch is called at time t: the calls of the window ending at t
LogSearch(log, t) == Append(SelectSeq(log, LAMBDA time : time > t - windowMs), t)

stanceVars == << stClaim, stNegated, stContent, stStance, stNegStance >>
verdictVars == << veItems, veEvidence, veLabel, veVerdict, veAfter, veVerdictLater, vePc >>

cacheVars == << cache, caNow, caTicks, caCalls, caFresh, caLookup >>

\* the state of the harnesses of single functions
unitVars == << ex, au, rk, runs >>

vars == << pipelineVars, stanceVars, verdictVars, cacheVars, unitVars >>

InitPipeline ==
    /\ now = 0
    /\ ticks = 0
    /\ requests = <<>>
    /\ apiKey = ""
    /\ pc = "idle"
    /\ runApiKey = ""
    /\ allClaims = <<>>
    /\ idx = 0
    /\ verdicts = <<>>
    /\ queryIdx = 0
    /\ allResults = <<>>
    /\ result = NoResponse
    /\ outages = 0
    /\ searchLog = <<>>
    /\ statusLog = <<>>
    /\ authRejected = FALSE

\* handleMessage, case 'SET_API_KEY'
SetApiKey(k) ==
    /\ pc = "idle"
    /\ apiKey # k
    /\ apiKey' = k
    /\ result' = NoResponse
    /\ UNCHANGED << now, ticks, requests, pc, runApiKey, allClaims, idx, verdicts,
                    queryIdx, allResults, outages, searchLog, statusLog,
                    authRejected >>
    /\ UNCHANGED << stanceVars, verdictVars, cacheVars, unitVars >>

\* verifyText without the test of allClaims.length
VerifyTextWithoutClaimsCheck(text) ==
    /\ pc = "idle"
    /\ IF apiKey = ""
       THEN /\ result' = Response(<<>>, <<>>, <<NO_API_KEY_ERROR>>)
            /\ UNCHANGED << pc, runApiKey, allClaims, idx, verdicts >>
       ELSE /\ result' = NoResponse
            /\ pc' = "loop"
            /\ runApiKey' = apiKey
            /\ allClaims' = EXTRACTED[text]
            /\ idx' = 1
            /\ verdicts' = <<>>
    /\ UNCHANGED << now, ticks, requests, apiKey, queryIdx, allResults, outages,
                    searchLog, statusLog, authRejected >>
    /\ UNCHANGED << stanceVars, verdictVars, cacheVars, unitVars >>

\* handleMessage, case 'VERIFY_TEXT': verifyText(text) up to its loop
VerifyText(text) ==
    /\ pc = "idle"
    /\ \E claims \in { EXTRACTED[text] } :
          IF apiKey = ""
          THEN /\ result' = Response(<<>>, <<>>, <<NO_API_KEY_ERROR>>)
               /\ UNCHANGED << pc, runApiKey, allClaims, idx, verdicts >>
          ELSE IF Len(claims) = 0
          THEN /\ result' = Response(<<>>, <<>>, <<NO_CLAIMS_ERROR>>)
               /\ UNCHANGED << pc, runApiKey, allClaims, idx, verdicts >>
          ELSE /\ result' = NoResponse
               /\ pc' = "loop"
               /\ runApiKey' = apiKey
               /\ allClaims' = claims
               /\ idx' = 1
               /\ verdicts' = <<>>
    /\ UNCHANGED << now, ticks, requests, apiKey, queryIdx, allResults, outages,
                    searchLog, statusLog, authRejected >>
    /\ UNCHANGED << stanceVars, verdictVars, cacheVars, unitVars >>

\* one loop iteration up to its first await: checkRateLimit(), then either
\* the catch branch for RateLimitError or the first executeTavilySearch call
CheckClaim ==
    /\ pc = "loop"
    /\ idx <= Len(factualClaims)
    /\ LET claim == factualClaims[idx]
           limit == checkRateLimit(requests, now)
       IN /\ requests' = cleanupOldRequests(requests, now)
          /\ IF limit.ok
             THEN /\ pc' = "search"
                  /\ queryIdx' = 1
                  /\ allResults' = <<>>
                  /\ authRejected' = FALSE
                  /\ searchLog' = LogSearch(searchLog, now)
                  /\ UNCHANGED << idx, verdicts, statusLog >>
             ELSE /\ verdicts' = Append(verdicts,
                                        RateLimitPlaceholder(claim, limit.waitSeconds))
                  /\ statusLog' = Append(statusLog, FALSE)
                  /\ idx' = idx + 1
                  /\ UNCHANGED << pc, queryIdx, allResults, authRejected, searchLog >>
    /\ UNCHANGED << now, ticks, apiKey, runApiKey, allClaims, result, outages >>
    /\ UNCHANGED << stanceVars, verdictVars, cacheVars, unitVars >>

\* what follows the await of one executeTavilySearch call in
\* searchForEvidence: the next call, or the return to verifyText, which
\* records the request, builds the verdict and goes to the next claim
AfterSearch(merged, rejected) ==
    LET claim == factualClaims[idx]
    IN IF queryIdx < Len(generateSearchQueries(claim))
       THEN /\ queryIdx' = queryIdx + 1
            /\ allResults' = merged
            /\ authRejected' = rejected
            /\ searchLog' = LogSearch(searchLog, now)
            /\ UNCHANGED << requests, pc, idx, verdicts, statusLog >>
       ELSE /\ requests' = recordRequest(requests, now)
            /\ verdicts' = Append(verdicts, VERDICTS[claim][merged])
            /\ statusLog' = Append(statusLog, rejected)
            /\ idx' = idx + 1
            /\ pc' = "loop"
            /\ queryIdx' = 0
            /\ allResults' = <<>>
            /\ authRejected' = FALSE
            /\ UNCHANGED searchLog

\* executeTavilySearch returns data.results
SearchSucceeds ==
    /\ pc = "search"
    /\ runApiKey = "tvly-valid"
    /\ LET query == generateSearchQueries(factualClaims[idx])[queryIdx]
       IN AfterSearch(Deduplicate(allResults, TavilyResults(query)), authRejected)
    /\ UNCHANGED << now, ticks, apiKey, runApiKey, allClaims, result, outages >>
    /\ UNCHANGED << stanceVars, verdictVars, cacheVars, unitVars >>

\* a failed call that is not caught in searchForEvidence and ends the run in
\* the outer catch of verifyText
SearchFailsAbortsRun ==
    /\ pc = "search"
    /\ \E status \in {401, 500} :
          IF status = 401
          THEN runApiKey = "tvly-rejected" /\ UNCHANGED outages
          ELSE /\ runApiKey = "tvly-valid"
               /\ outages < MaxOutages
               /\ outages' = outages + 1
    /\ result' = Response(<<>>, <<>>, <<"Tavily API error">>)
    /\ pc' = "idle"
    /\ runApiKey' = ""
    /\ allClaims' = <<>>
    /\ idx' = 0
    /\ verdicts' = <<>>
    /\ statusLog' = <<>>
    /\ searchLog' = <<>>
    /\ queryIdx' = 0
    /\ allResults' = <<>>
    /\ authRejected' = FALSE
    /\ UNCHANGED << now, ticks, requests, apiKey >>
    /\ UNCHANGED << stanceVars, verdictVars, cacheVars, unitVars >>

\* executeTavilySearch throws a TavilyError (401 for a key the provider
\* rejects, 500 for an outage); searchForEvidence catches and logs it
SearchFails ==
    /\ pc = "search"
    /\ \E status \in {401, 500} :
          /\ IF status = 401
             THEN runApiKey = "tvly-rejected" /\ UNCHANGED outages
             ELSE /\ runApiKey = "tvly-valid"
                  /\ outages < MaxOutages
                  /\ outages' = outages + 1
          /\ AfterSearch(allResults, authRejected \/ isAuthError(status))
    /\ UNCHANGED << now, ticks, apiKey, runApiKey, allClaims, result >>
    /\ UNCHANGED << stanceVars, verdictVars, cacheVars, unitVars >>

\* the loop is over: return { claims: allClaims, verdicts }
ReturnResult ==
    /\ pc = "loop"
    /\ idx > Len(factualClaims)
    /\ result' = Response(allClaims, verdicts, <<>>)
    /\ pc' = "idle"
    /\ runApiKey' = ""
    /\ allClaims' = <<>>
    /\ idx' = 0
    /\ verdicts' = <<>>
    /\ statusLog' = <<>>
    /\ searchLog' = <<>>
    /\ outages' = 0
    /\ UNCHANGED << now, ticks, requests, apiKey, queryIdx, allResults, authRejected >>
    /\ UNCHANGED << stanceVars, verdictVars, cacheVars, unitVars >>

\* the clock is seen to advance by almost a window while the worker is idle
\* and by a millisecond between two iterations of the loop
TickSteps == IF pc = "idle" THEN {windowMs - 1} ELSE {1}

Tick ==
    /\ ticks < MaxTicks
    /\ pc \in {"idle", "loop"}
    /\ \E d \in TickSteps :
          /\ now' = now + d
          /\ searchLog' = SelectSeq(searchLog, LAMBDA time : time > now + d - windowMs)
    /\ ticks' = ticks + 1
    /\ result' = NoResponse
    /\ UNCHANGED << requests, apiKey, pc, runApiKey, allClaims, idx, verdicts,
                    queryIdx, allResults, outages, statusLog, authRejected >>
    /\ UNCHANGED << stanceVars, verdictVars, cacheVars, unitVars >>

InitHarnesses ==
    /\ stClaim = <<>>
    /\ stNegated = <<>>
    /\ stContent = <<>>
    /\ stStance = ""
    /\ stNegStance = ""
    /\ veItems = <<>>
    /\ veEvidence = <<>>
    /\ veLabel = ""
    /\ veVerdict = <<>>
    /\ veAfter = <<>>
    /\ veVerdictLater = <<>>
    /\ vePc = "items"
    /\ cache = EMPTY_CACHE
    /\ caNow = 0
    /\ caTicks = 0
    /\ caCalls = 0
    /\ caFresh = 0
    /\ caLookup = [asked |-> FALSE]

\* verifyText runs that can be in flight at once
MaxRuns == 2

\* no text has been given to the claim extractor, no URL has been scored,
\* no evidence has been ranked, no VERIFY_TEXT message is being handled
InitUnits ==
    /\ ex = [pc |-> "text", pieces |-> 0, text |-> <<>>, label |-> "", parts |-> <<>>]
    /\ au = [pc |-> "start", url |-> <<>>, score |-> 0]
    /\ rk = [pc |-> "items", items |-> <<>>, ranked |-> <<>>]
    /\ runs = [r \in 1..MaxRuns |-> [pc |-> "idle", left |-> 0]]

Init == InitPipeline /\ InitHarnesses /\ InitUnits

Next ==
    \/ \E k \in API_KEYS : SetApiKey(k)
    \/ \E t \in Texts : VerifyText(t)
    \/ CheckClaim
    \/ SearchSucceeds
    \/ SearchFails
    \/ ReturnResult
    \/ Tick

Spec == Init /\ [][Next]_vars

\* ------------------------------------------------------------------------
\* The verdict engine on its own: an evidence list is built item by item,
\* aggregated (aggregateEvidence) and labelled (determineVerdictLabel)
\* ------------------------------------------------------------------------
AUTHORITIES == {25, 50, 95}
STANCES == {"SUPPORTS", "CONTRADICTS", "INCONCLUSIVE"}

\* a host that calculateAuthority gives the authority
HostOfAuthority(authority) ==
    CASE authority = 95 -> <<"s","n","o","p","e","s",".","c","o","m">>
      [] authority = 50 -> <<"e","x","a","m","p","l","e",".","c","o","m">>
      [] OTHER -> <<"t","w","i","t","t","e","r",".","c","o","m">>

\* the pages of example.com carry a date, 350 days before the start
PublishedOfAuthority(authority) ==
    IF authority = 50 THEN [has |-> TRUE, day |-> -350] ELSE NoDate

\* a ClassifiedEvidence of the given authority and stance
EvidenceItem(authority, stance) ==
    [ source |-> extractSourceName([ok |-> TRUE, host |-> HostOfAuthority(authority),
                                    path |-> "page"]),
      url |-> [ok |-> TRUE, host |-> HostOfAuthority(authority), path |-> "page"],
      snippet |-> <<>>,
      rawContent |-> <<>>,
      stance |-> stance,
      authority |-> authority,
      publishedDate |-> PublishedOfAuthority(authority) ]

\* the claim the verdicts of the harness are about
HARNESS_CLAIM ==
    [ id |-> "claim-1", text |-> <<"facebook", "was", "founded", "in", "2004">> ]

\* days from the first call of generateVerdict to the second
LATER_DAYS == {0, 30}

AddEvidence(authority, stance) ==
    /\ vePc = "items"
    /\ Len(veItems) < MaxEvidence
    /\ veItems' = Append(veItems, EvidenceItem(authority, stance))
    /\ UNCHANGED << veEvidence, veLabel, veVerdict, veAfter, veVerdictLater, vePc >>
    /\ UNCHANGED << pipelineVars, stanceVars, cacheVars, unitVars >>

Aggregate ==
    /\ vePc = "items"
    /\ veEvidence' = aggregateEvidence(veItems)
    /\ vePc' = "aggregated"
    /\ UNCHANGED << veItems, veLabel, veVerdict, veAfter, veVerdictLater >>
    /\ UNCHANGED << pipelineVars, stanceVars, cacheVars, unitVars >>

Label ==
    /\ vePc = "aggregated"
    /\ veLabel' = determineVerdictLabel(veEvidence)
    /\ vePc' = "labelled"
    /\ UNCHANGED << veItems, veEvidence, veVerdict, veAfter, veVerdictLater >>
    /\ UNCHANGED << pipelineVars, stanceVars, cacheVars, unitVars >>

\* generateVerdict(claim, veEvidence) on day 0; veEvidence keeps the value
\* the object had at the call
Verdict ==
    /\ vePc = "labelled"
    /\ \E confidence \in ConfidenceOutcomes(veEvidence, determineVerdictLabel(veEvidence)) :
           veVerdict' = VerdictWith(HARNESS_CLAIM, veEvidence,
                                    determineVerdictLabel(veEvidence), confidence, 0)
    /\ veAfter' = EvidenceAfterVerdict(veEvidence)
    /\ vePc' = "verdict"
    /\ UNCHANGED << veItems, veEvidence, veLabel, veVerdictLater >>
    /\ UNCHANGED << pipelineVars, stanceVars, cacheVars, unitVars >>

\* a second call with arguments equal to those of the first, days later
\* (the same doubles, so the same confidence)
VerdictAgain(days) ==
    /\ vePc = "verdict"
    /\ veVerdictLater' = VerdictWith(HARNESS_CLAIM, veEvidence,
                                     determineVerdictLabel(veEvidence),
                                     veVerdict.confidence, days)
    /\ vePc' = "again"
    /\ UNCHANGED << veItems, veEvidence, veLabel, veVerdict, veAfter >>
    /\ UNCHANGED << pipelineVars, stanceVars, cacheVars, unitVars >>

NextVerdict ==
    \/ \E a \in AUTHORITIES, s \in STANCES : AddEvidence(a, s)
    \/ Aggregate
    \/ Label
    \/ Verdict
    \/ \E d \in LATER_DAYS : VerdictAgain(d)

SpecVerdict == Init /\ [][NextVerdict]_vars

\* ------------------------------------------------------------------------
\* Stance detection on its own: a claim that fits a relation template, the
\* same claim with a negation word added, a content, and detectStance of
\* both claims against the content
\* ------------------------------------------------------------------------
TEMPLATE_CLAIMS ==
    { <<"facebook", "was", "founded", "by", "mark", "zuckerberg">>,
      <<"tim", "cook", "is", "the", "ceo", "of", "apple">>,
      <<"google", "is", "based", "in", "california">> }

CONTENTS ==
    { <<"mark", "zuckerberg", "founded", "facebook", "in", "2004">>,
      <<"it", "is", "confirmed", "that", "mark", "zuckerberg", "founded", "facebook">>,
      <<"apple", "ceo", "tim", "cook", "spoke", "today">>,
      <<"google", "is", "based", "in", "mountain", "view", ",", "california">>,
      <<"the", "facebook", "story", "is", "a", "hoax">> }

\* claims that state a number in a context (an age, a height)
NUMERIC_CLAIMS ==
    { <<"trump", "is", "30", "years", "old", ".">>,
      <<"the", "tower", "is", "300", "meters", "tall">> }

\* contents that state a number, with and without the words of a context
NUMERIC_CONTENTS ==
    { <<"trump", "is", "78">>,
      <<"trump", "is", "78", "years", "old">>,
      <<"he", "was", "aged", "78">>,
      <<"it", "is", "confirmed", "that", "trump", "is", "78", "years", "old">>,
      <<"the", "tower", "is", "330", "meters", "tall">>,
      <<"trump", "is", "30", "years", "old", ",", "his", "father", "was", "aged", "78">>,
      <<"trump", "is", "31", "years", "old">> }

\* a content that mentions the claim's subject and takes no side
SIGNAL_BASE == <<"the", "facebook", "story">>

\* what is written after it: words of the SUPPORT_PATTERNS and the
\* CONTRADICT_PATTERNS, and verdict labels of fact-checking sites
SIGNALS ==
    << <<"verified">>, <<"evidence", "shows">>, <<"officially", "confirmed">>,
       <<"wrong">>, <<"myth">>, <<"not", "true">>,
       <<"rating", ":", "false">>, <<"status", ":", "correct">> >>

MaxSignals == 3

\* the base followed by the signals of the set, in the order of SIGNALS
RECURSIVE SignalContent(_)
SignalContent(chosen) ==
    IF chosen = {} THEN SIGNAL_BASE
    ELSE LET last == CHOOSE k \in chosen : \A j \in chosen : j <= k
         IN SignalContent(chosen \ {last}) \o SIGNALS[last]

\* the contents with up to MaxSignals signals
SIGNAL_CONTENTS ==
    { SignalContent(chosen) :
        chosen \in { c \in SUBSET DOMAIN SIGNALS : Cardinality(c) <= MaxSignals } }

ADDED_NEGATIONS == {"not", "never"}

\* the claim with word w put after its first k words
WithWordAfter(claim, k, w) ==
    SubSeq(claim, 1, k) \o <<w>> \o SubSeq(claim, k + 1, Len(claim))

ChooseClaim(claim) ==
    /\ stClaim = <<>>
    /\ stClaim' = claim
    /\ UNCHANGED << stNegated, stContent, stStance, stNegStance >>
    /\ UNCHANGED << pipelineVars, verdictVars, cacheVars, unitVars >>

AddNegation(k, w) ==
    /\ stClaim # <<>>
    /\ stNegated = <<>>
    /\ k <= Len(stClaim)
    /\ stNegated' = WithWordAfter(stClaim, k, w)
    /\ UNCHANGED << stClaim, stContent, stStance, stNegStance >>
    /\ UNCHANGED << pipelineVars, verdictVars, cacheVars, unitVars >>

ChooseContent(content) ==
    /\ stContent = <<>>
    /\ stContent' = content
    /\ UNCHANGED << stClaim, stNegated, stStance, stNegStance >>
    /\ UNCHANGED << pipelineVars, verdictVars, cacheVars, unitVars >>

\* the content grows by one signal
AppendSignal(signal) ==
    /\ stStance = ""
    /\ stContent \in SIGNAL_CONTENTS
    /\ stContent \o signal \in SIGNAL_CONTENTS
    /\ stContent' = stContent \o signal
    /\ UNCHANGED << stClaim, stNegated, stStance, stNegStance >>
    /\ UNCHANGED << pipelineVars, verdictVars, cacheVars, unitVars >>

DetectStances ==
    /\ stNegated # <<>>
    /\ stContent # <<>>
    /\ stStance = ""
    /\ stStance' = detectStance(stClaim, stContent)
    /\ stNegStance' = detectStance(stNegated, stContent)
    /\ UNCHANGED << stClaim, stNegated, stContent >>
    /\ UNCHANGED << pipelineVars, verdictVars, cacheVars, unitVars >>

NextStance ==
    \/ \E c \in TEMPLATE_CLAIMS \cup NUMERIC_CLAIMS : ChooseClaim(c)
    \/ \E k \in 1..7, w \in ADDED_NEGATIONS : AddNegation(k, w)
    \/ \E c \in CONTENTS \cup NUMERIC_CONTENTS \cup {SIGNAL_BASE} : ChooseContent(c)
    \/ \E signal \in Range(SIGNALS) : AppendSignal(signal)
    \/ DetectStances

SpecStance == Init /\ [][NextStance]_vars

\* ------------------------------------------------------------------------
\* The cache on its own: cacheVerification calls, one at a time, with a few
\* claims whose texts differ in case, punctuation and spacing, a run of
\* calls with numbered claims that fills the cache beyond its size, a clock
\* that advances, and a getCachedVerdict call at the end
\* ------------------------------------------------------------------------
CacheClaim(id, text) == [id |-> id, text |-> text, originalText |-> text]

\* "Cats purr.", " cats  PURR" and "Dogs bark!"
CACHE_CLAIMS ==
    { CacheClaim(<<"a">>, <<"C", "a", "t", "s", " ", "p", "u", "r", "r", ".">>),
      CacheClaim(<<"b">>, <<" ", "c", "a", "t", "s", " ", " ", "P", "U", "R", "R">>),
      CacheClaim(<<"c">>, <<"D", "o", "g", "s", " ", "b", "a", "r", "k", "!">>) }

\* the claims "n1", "n2", ...
NumberedClaim(k) == CacheClaim(<<"n">> \o NumberText(k), <<"n">> \o NumberText(k))

\* the texts getCachedVerdict is asked for
LOOKUP_TEXTS == { c.text : c \in CACHE_CLAIMS } \cup { NumberedClaim(1).text }

\* the verdict and the queries stored with a claim
CachedVerdictOf(claim) == [claimId |-> claim.id, verdict |-> "SUPPORTED", confidence |-> 80]

\* half a day
CACHE_TICK == 12 * 60 * 60 * 1000

\* the run of calls with numbered claims has not begun or is over
OutsideRun == caFresh = 0 \/ caFresh = MAX_CACHE_SIZE + MaxOverflow

CacheVerification(claim) ==
    /\ ~ caLookup.asked
    /\ OutsideRun
    /\ caCalls < MaxCacheCalls
    /\ cache' = cacheVerification(cache, claim, CachedVerdictOf(claim), <<claim.text>>, caNow)
    /\ caCalls' = caCalls + 1
    /\ UNCHANGED << caNow, caTicks, caFresh, caLookup >>
    /\ UNCHANGED << pipelineVars, stanceVars, verdictVars, unitVars >>

\* the next call of the run, a millisecond after the one before
CacheNumbered ==
    /\ ~ caLookup.asked
    /\ caFresh < MAX_CACHE_SIZE + MaxOverflow
    /\ \E claim \in {NumberedClaim(caFresh + 1)} :
          cache' = cacheVerification(cache, claim, CachedVerdictOf(claim),
                                     <<claim.text>>, caNow)
    /\ caNow' = caNow + 1
    /\ caFresh' = caFresh + 1
    /\ UNCHANGED << caTicks, caCalls, caLookup >>
    /\ UNCHANGED << pipelineVars, stanceVars, verdictVars, unitVars >>

CacheTick ==
    /\ ~ caLookup.asked
    /\ OutsideRun
    /\ caTicks < MaxCacheTicks
    /\ caNow' = caNow + CACHE_TICK
    /\ caTicks' = caTicks + 1
    /\ UNCHANGED << cache, caCalls, caFresh, caLookup >>
    /\ UNCHANGED << pipelineVars, stanceVars, verdictVars, unitVars >>

GetCachedVerdict(claimText) ==
    /\ ~ caLookup.asked
    /\ OutsideRun
    /\ caLookup' = [ asked |-> TRUE, text |-> claimText, at |-> caNow,
                     result |-> getCachedVerdict(cache, claimText, caNow) ]
    /\ UNCHANGED << cache, caNow, caTicks, caCalls, caFresh >>
    /\ UNCHANGED << pipelineVars, stanceVars, verdictVars, unitVars >>

NextCache ==
    \/ \E c \in CACHE_CLAIMS : CacheVerification(c)
    \/ CacheNumbered
    \/ CacheTick
    \/ \E t \in LOOKUP_TEXTS : GetCachedVerdict(t)

SpecCache == Init /\ [][NextCache]_vars

\* ------------------------------------------------------------------------
\* The rate limiter on its own: recordRequest calls that no checkRateLimit
\* precedes, queries (each cleans state.requests up) and a clock that
\* advances by a millisecond or by a millisecond less than the window
\* ------------------------------------------------------------------------
LIMITER_TICKS == {1, windowMs - 1}

LimiterRecord ==
    /\ Len(requests) < MaxRecords
    /\ requests' = recordRequest(requests, now)
    /\ UNCHANGED << now, ticks, apiKey, pc, runApiKey, allClaims, idx, verdicts,
                    queryIdx, allResults, result, outages, searchLog, statusLog,
                    authRejected >>
    /\ UNCHANGED << stanceVars, verdictVars, cacheVars, unitVars >>

\* canMakeRequest(), getRemainingRequests() or getTimeUntilNextSlot(): what
\* the call leaves in state.requests
LimiterQuery ==
    /\ requests' = cleanupOldRequests(requests, now)
    /\ requests' # requests
    /\ UNCHANGED << now, ticks, apiKey, pc, runApiKey, allClaims, idx, verdicts,
                    queryIdx, allResults, result, outages, searchLog, statusLog,
                    authRejected >>
    /\ UNCHANGED << stanceVars, verdictVars, cacheVars, unitVars >>

LimiterTick(d) ==
    /\ ticks < MaxLimiterTicks
    /\ now' = now + d
    /\ ticks' = ticks + 1
    /\ UNCHANGED << requests, apiKey, pc, runApiKey, allClaims, idx, verdicts,
                    queryIdx, allResults, result, outages, searchLog, statusLog,
                    authRejected >>
    /\ UNCHANGED << stanceVars, verdictVars, cacheVars, unitVars >>

NextLimiter ==
    \/ LimiterRecord
    \/ LimiterQuery
    \/ \E d \in LIMITER_TICKS : LimiterTick(d)

SpecLimiter == Init /\ [][NextLimiter]_vars

\* ------------------------------------------------------------------------
\* The claim extractor on its own: a text is written piece by piece, then
\* classified (classifyClaim) or split (splitIntoAtomicClaims)
\* ------------------------------------------------------------------------
MaxPieces == 3

\* what a text is made of: one piece per kind of marker
OPINION_PIECE == <<"pizza", "tastes", "best">>
PREDICTION_PIECE == <<"prices", "might", "rise">>
VAGUE_PIECE == <<"some", "people", "agree">>
PRONOUN_PIECE == <<"they", "agree">>
FACTUAL_PIECE == <<"paris", "was", "founded">>
PLAIN_PIECE == <<"cats", "chase", "mice">>
IMPERATIVE_PIECE == <<"please", "wait">>
QUESTION_PIECE == <<"?">>

PIECES ==
    { OPINION_PIECE, PREDICTION_PIECE, VAGUE_PIECE, PRONOUN_PIECE, FACTUAL_PIECE,
      PLAIN_PIECE, IMPERATIVE_PIECE, QUESTION_PIECE }

\* what joins a piece to the text before it; the question mark can also
\* follow it directly
JOINERS == { <<>>, <<"and">>, <<";">> }

AppendPiece(piece, joiner) ==
    /\ ex.pc = "text"
    /\ ex.pieces < MaxPieces
    /\ joiner = <<>> <=> (ex.text = <<>> \/ piece = QUESTION_PIECE)
    /\ ex' = [ex EXCEPT !.pieces = @ + 1, !.text = @ \o joiner \o piece]
    /\ UNCHANGED << pipelineVars, stanceVars, verdictVars, cacheVars, au, rk, runs >>

ClassifyClaim ==
    /\ ex.pc = "text"
    /\ ex.text # <<>>
    /\ \E label \in {classifyClaim(ex.text)} :
           ex' = [ex EXCEPT !.pc = "classified", !.label = label]
    /\ UNCHANGED << pipelineVars, stanceVars, verdictVars, cacheVars, au, rk, runs >>

SplitIntoAtomicClaims ==
    /\ ex.pc = "text"
    /\ ex.text # <<>>
    /\ \E parts \in {splitIntoAtomicClaims(ex.text)} :
           ex' = [ex EXCEPT !.pc = "split", !.parts = parts]
    /\ UNCHANGED << pipelineVars, stanceVars, verdictVars, cacheVars, au, rk, runs >>

NextExtract ==
    \/ \E piece \in PIECES : \E joiner \in JOINERS : AppendPiece(piece, joiner)
    \/ ClassifyClaim
    \/ SplitIntoAtomicClaims

SpecExtract == Init /\ [][NextExtract]_vars

\* ------------------------------------------------------------------------
\* calculateAuthority on its own: a URL is chosen, then scored
\* ------------------------------------------------------------------------
\* every domain the tables list
LISTED_DOMAINS ==
    Range(LOW_AUTHORITY_DOMAINS)
        \cup UNION { Range(AUTHORITY_TIERS[t].domains) : t \in DOMAIN AUTHORITY_TIERS }

\* hostnames no table entry occurs in
UNLISTED_HOSTS ==
    { <<"l","o","c","a","l","h","o","s","t">>,
      <<"e","x","a","m","p","l","e",".","d","e","v">> }

\* what stands before the domain in a hostname
SUBDOMAINS == { <<>>, <<"w","w","w",".">>, <<"n","e","w","s",".">> }

\* the hostnames of the URLs that are scored
HOSTS == { sub \o d : sub \in SUBDOMAINS, d \in LISTED_DOMAINS \cup UNLISTED_HOSTS }

\* a string new URL() rejects
UNPARSABLE_URL == [ok |-> FALSE, host |-> <<>>, path |-> "not a url"]

URLS == { [ok |-> TRUE, host |-> h, path |-> "page"] : h \in HOSTS } \cup {UNPARSABLE_URL}

ChooseUrl(url) ==
    /\ au.pc = "start"
    /\ au' = [au EXCEPT !.pc = "url", !.url = url]
    /\ UNCHANGED << pipelineVars, stanceVars, verdictVars, cacheVars, ex, rk, runs >>

ScoreUrl ==
    /\ au.pc = "url"
    /\ \E score \in {CalculateAuthority(au.url)} :
           au' = [au EXCEPT !.pc = "scored", !.score = score]
    /\ UNCHANGED << pipelineVars, stanceVars, verdictVars, cacheVars, ex, rk, runs >>

NextAuthority ==
    \/ \E url \in URLS : ChooseUrl(url)
    \/ ScoreUrl

SpecAuthority == Init /\ [][NextAuthority]_vars

\* ------------------------------------------------------------------------
\* rankEvidence on its own: an evidence list is built item by item, then
\* ranked
\* ------------------------------------------------------------------------
MaxRankItems == 3

\* pages of authority 0.95, 0.85, 0.75 and 0.40, and one whose URL does not
\* parse (0.30)
RANK_URLS ==
    { [ok |-> TRUE, host |-> <<"r","e","u","t","e","r","s",".","c","o","m">>, path |-> "page"],
      [ok |-> TRUE, host |-> <<"b","b","c",".","c","o","m">>, path |-> "page"],
      [ok |-> TRUE, host |-> <<"c","n","n",".","c","o","m">>, path |-> "page"],
      [ok |-> TRUE, host |-> <<"l","o","c","a","l","h","o","s","t">>, path |-> "page"],
      UNPARSABLE_URL }

RANK_DATES == { NoDate, [has |-> TRUE, day |-> -400], [has |-> TRUE, day |-> -30] }

\* the ClassifiedEvidence of a page
RANK_ITEMS ==
    { [ source |-> extractSourceName(url),
        url |-> url,
        snippet |-> <<>>,
        rawContent |-> <<>>,
        stance |-> "INCONCLUSIVE",
        authority |-> CalculateAuthority(url),
        publishedDate |-> date ] : url \in RANK_URLS, date \in RANK_DATES }

AddRankItem(item) ==
    /\ rk.pc = "items"
    /\ Len(rk.items) < MaxRankItems
    /\ rk' = [rk EXCEPT !.items = Append(@, item)]
    /\ UNCHANGED << pipelineVars, stanceVars, verdictVars, cacheVars, ex, au, runs >>

RankEvidence ==
    /\ rk.pc = "items"
    /\ rk.items # <<>>
    /\ \E ranked \in RankOutcomes(rk.items) :
           rk' = [rk EXCEPT !.pc = "ranked", !.ranked = ranked]
    /\ UNCHANGED << pipelineVars, stanceVars, verdictVars, cacheVars, ex, au, runs >>

NextRank ==
    \/ \E item \in RANK_ITEMS : AddRankItem(item)
    \/ RankEvidence

SpecRank == Init /\ [][NextRank]_vars

\* ------------------------------------------------------------------------
\* Several verifyText runs at once.  The listener starts handleMessage for
\* every VERIFY_TEXT message without waiting for the runs before it; a run
\* gives way at each await (storage.getApiKey, searchForEvidence) and runs
\* without interruption in between.  All runs share the rate limiter.
\* ------------------------------------------------------------------------
MaxRunClaims == 6
MaxRunTicks == 1

\* the numbers of factual claims of the texts sent for verification
RUN_CLAIMS == {1, MaxRunClaims}

\* what the runs leave alone
restOfPipeline ==
    << pc, runApiKey, allClaims, idx, verdicts, queryIdx, allResults, result,
       outages, searchLog, statusLog, authRejected >>

\* the for loop of verifyText from the claim it is at to its next await:
\* checkRateLimit() throws for the claim and, nothing having changed, for
\* every claim after it, or the search for the claim begins
LoopToAwait(reqs, t, left) ==
    IF left = 0 THEN [requests |-> reqs, run |-> [pc |-> "idle", left |-> 0]]
    ELSE IF checkRateLimit(reqs, t).ok
         THEN [requests |-> cleanupOldRequests(reqs, t),
               run |-> [pc |-> "search", left |-> left]]
    ELSE [requests |-> cleanupOldRequests(reqs, t), run |-> [pc |-> "idle", left |-> 0]]

\* a VERIFY_TEXT message arrives: verifyText awaits storage.getApiKey()
ReceiveVerifyText(r, claims) ==
    /\ runs[r].pc = "idle"
    /\ runs' = [runs EXCEPT ![r] = [pc |-> "key", left |-> claims]]
    /\ UNCHANGED << now, ticks, requests, apiKey, restOfPipeline >>
    /\ UNCHANGED << stanceVars, verdictVars, cacheVars, ex, au, rk >>

\* the key arrives: without a key the run returns, else it extracts the
\* claims and enters the loop
KeyRead(r) ==
    /\ runs[r].pc = "key"
    /\ \E after \in {LoopToAwait(requests, now, IF apiKey = "" THEN 0 ELSE runs[r].left)} :
           /\ requests' = after.requests
           /\ runs' = [runs EXCEPT ![r] = after.run]
    /\ UNCHANGED << now, ticks, apiKey, restOfPipeline >>
    /\ UNCHANGED << stanceVars, verdictVars, cacheVars, ex, au, rk >>

\* searchForEvidence returns: recordRequest(), the verdict, the next claim
SearchReturns(r) ==
    /\ runs[r].pc = "search"
    /\ \E after \in {LoopToAwait(recordRequest(requests, now), now, runs[r].left - 1)} :
           /\ requests' = after.requests
           /\ runs' = [runs EXCEPT ![r] = after.run]
    /\ UNCHANGED << now, ticks, apiKey, restOfPipeline >>
    /\ UNCHANGED << stanceVars, verdictVars, cacheVars, ex, au, rk >>

\* searchForEvidence throws a TavilyError: a placeholder, the next claim
SearchThrows(r) ==
    /\ runs[r].pc = "search"
    /\ \E after \in {LoopToAwait(requests, now, runs[r].left - 1)} :
           /\ requests' = after.requests
           /\ runs' = [runs EXCEPT ![r] = after.run]
    /\ UNCHANGED << now, ticks, apiKey, restOfPipeline >>
    /\ UNCHANGED << stanceVars, verdictVars, cacheVars, ex, au, rk >>

\* a SET_API_KEY message is handled
StoreApiKey(k) ==
    /\ apiKey # k
    /\ apiKey' = k
    /\ UNCHANGED << now, ticks, requests, restOfPipeline >>
    /\ UNCHANGED << stanceVars, verdictVars, cacheVars, unitVars >>

\* a window goes by
RunTick ==
    /\ ticks < MaxRunTicks
    /\ now' = now + windowMs
    /\ ticks' = ticks + 1
    /\ UNCHANGED << requests, apiKey, restOfPipeline >>
    /\ UNCHANGED << stanceVars, verdictVars, cacheVars, unitVars >>

NextConcurrent ==
    \/ \E r \in 1..MaxRuns, claims \in RUN_CLAIMS : ReceiveVerifyText(r, claims)
    \/ \E r \in 1..MaxRuns : KeyRead(r)
    \/ \E r \in 1..MaxRuns : SearchReturns(r)
    \/ \E r \in 1..MaxRuns : SearchThrows(r)
    \/ \E k \in API_KEYS : StoreApiKey(k)
    \/ RunTick

SpecConcurrent == Init /\ [][NextConcurrent]_vars

\* ------------------------------------------------------------------------
\* Properties
\* ------------------------------------------------------------------------
LABELS == {"SUPPORTED", "FALSE", "MISLEADING", "INSUFFICIENT_EVIDENCE"}

\* the FACTUAL claims of a list, read off the classification field
FactualOf(claims) == SelectSeq(claims, LAMBDA c : c.classification = "FACTUAL")

\* the verdict was pushed for a RateLimitError
IsRateLimitPlaceholder(v) ==
    Len(v.explanation) > 0 /\ v.explanation[1] = "Rate limited. Please wait "

HasRateLimitPlaceholder(vs) == \E i \in DOMAIN vs : IsRateLimitPlaceholder(vs[i])

\* C1: every verdict of a result of verifyText has a confidence within
\* [0.1, 0.9], and of exactly 0.1 when its label is INSUFFICIENT_EVIDENCE.
C1_ConfidenceWithinBounds ==
    result.sent =>
        \A i \in DOMAIN result.verdicts :
            /\ result.verdicts[i].confidence >= 10
            /\ result.verdicts[i].confidence <= 90
            /\ result.verdicts[i].verdict = "INSUFFICIENT_EVIDENCE"
                   => result.verdicts[i].confidence = 10

\* the label the rules of the verdict engine give, first match first, with
\* the consensus score num / den compared by cross-multiplication
FirstMatchingRule(ev) ==
    LET num == ev.consensusScore.num
        den == ev.consensusScore.den
    IN CASE ev.totalSources < 2 -> "INSUFFICIENT_EVIDENCE"
         [] OTHER ->
            CASE Len(ev.supporting) = 0 /\ Len(ev.contradicting) = 0
                     -> "INSUFFICIENT_EVIDENCE"
              [] OTHER ->
                 CASE 10 * num >= 6 * den /\ Len(ev.supporting) >= 2 -> "SUPPORTED"
                   [] OTHER ->
                      CASE 10 * num <= -6 * den /\ Len(ev.contradicting) >= 2 -> "FALSE"
                        [] OTHER ->
                           CASE /\ 10 * num >= -6 * den
                                /\ 10 * num <= 3 * den
                                /\ Len(ev.supporting) > 0
                                /\ Len(ev.contradicting) > 0 -> "MISLEADING"
                             [] OTHER -> "INSUFFICIENT_EVIDENCE"

\* two supporting and two contradicting items of authority 0.5, in any order
TwoAgainstTwo(items) ==
    /\ Len(items) = 4
    /\ \A i \in DOMAIN items : items[i].authority = 50
    /\ Cardinality({ i \in DOMAIN items : items[i].stance = "SUPPORTS" }) = 2
    /\ Cardinality({ i \in DOMAIN items : items[i].stance = "CONTRADICTS" }) = 2

\* C2: determineVerdictLabel returns the label of the first matching rule
\* (fewer than 2 sources, no supporting and no contradicting item, SUPPORTED,
\* FALSE, MISLEADING, otherwise INSUFFICIENT_EVIDENCE); one supporting item
\* of authority 0.95 gives INSUFFICIENT_EVIDENCE, two supporting and two
\* contradicting items of authority 0.5 give MISLEADING.
C2_LabelOfFirstMatchingRule ==
    vePc = "labelled" =>
        /\ veLabel = FirstMatchingRule(veEvidence)
        /\ veItems = << EvidenceItem(95, "SUPPORTS") >>
               => veLabel = "INSUFFICIENT_EVIDENCE"
        /\ TwoAgainstTwo(veItems) => veLabel = "MISLEADING"

\* a list of two supporting and two contradicting items has been labelled
C2_TwoAgainstTwoLabelled ==
    vePc = "labelled" /\ TwoAgainstTwo(veItems) /\ veLabel = "MISLEADING"

\* C3: once checkRateLimit has rejected a claim of a run, no search is
\* started for a later claim of that run.
C3_NoSearchAfterRejection ==
    pc = "search" => ~ HasRateLimitPlaceholder(verdicts)

\* the explanation of a placeholder names a wait of w seconds
NamesWait(v) ==
    \E w \in 1..(windowMs \div 1000) :
        v.explanation = <<"Rate limited. Please wait ">> \o NumberText(w)
                          \o <<" seconds before trying again.">>

\* C4: when the throttle rejects a claim, the claim gets a placeholder
\* labelled INSUFFICIENT_EVIDENCE whose explanation names the wait in
\* seconds, the verdicts produced before stay in the list as they are, and
\* the run returns every claim with one verdict per factual claim and no
\* error.
C4_RejectionKeepsEarlierVerdicts ==
    [][ /\ (pc # "idle" /\ pc' # "idle")
            => /\ Len(verdicts') >= Len(verdicts)
               /\ SubSeq(verdicts', 1, Len(verdicts)) = verdicts
        /\ (pc = "loop" /\ pc' = "loop" /\ idx' = idx + 1)
            => /\ Len(verdicts') = Len(verdicts) + 1
               /\ verdicts'[Len(verdicts')].claimId = FactualOf(allClaims)[idx].id
               /\ verdicts'[Len(verdicts')].verdict = "INSUFFICIENT_EVIDENCE"
               /\ NamesWait(verdicts'[Len(verdicts')])
        /\ (pc = "loop" /\ pc' = "idle")
            => /\ result'.sent
               /\ result'.error = <<>>
               /\ result'.claims = allClaims
               /\ result'.verdicts = verdicts
               /\ Len(verdicts) = Len(FactualOf(allClaims))
      ]_vars

\* a run has returned a generated verdict followed by a placeholder
C4_VerdictThenPlaceholderReturned ==
    /\ result.sent
    /\ Len(result.verdicts) >= 2
    /\ ~ IsRateLimitPlaceholder(result.verdicts[1])
    /\ IsRateLimitPlaceholder(result.verdicts[2])
    /\ NamesWait(result.verdicts[2])

\* C5: the executeTavilySearch calls a run issues within a window of 60
\* seconds never exceed the limit of 10.
C5_SearchCallsWithinLimit == Len(searchLog) <= maxRequests

\* C6: the verdict of a claim whose search was rejected by the provider
\* with 401 or 403 carries the authentication message.
C6_AuthFailureSurfaced ==
    \A i \in DOMAIN verdicts :
        statusLog[i] =>
            verdicts[i].explanation
                = TavilyErrorPlaceholder(FactualOf(allClaims)[i], TRUE).explanation

\* C7: only FACTUAL claims are searched and get a verdict; the claims list
\* that is returned is the whole extraction, non-factual claims included.
C7_OnlyFactualClaimsVerified ==
    /\ pc = "search"
           => /\ factualClaims[idx].classification = "FACTUAL"
              /\ \E j \in DOMAIN allClaims : allClaims[j] = factualClaims[idx]
    /\ (result.sent /\ result.error = <<>>)
           => /\ \A i \in DOMAIN result.verdicts :
                     \E j \in DOMAIN result.claims :
                         /\ result.claims[j].id = result.verdicts[i].claimId
                         /\ result.claims[j].classification = "FACTUAL"
              /\ \E t \in Texts : result.claims = EXTRACTED[t]

\* a result with a verdict and with a claim that is not FACTUAL
C7_OpinionKeptBesideVerdict ==
    /\ result.sent
    /\ Len(result.verdicts) >= 1
    /\ \E j \in DOMAIN result.claims : result.claims[j].classification = "OPINION"

NoneFactual(claims) == \A j \in DOMAIN claims : claims[j].classification # "FACTUAL"

\* verifyText answers a text without claims at once, a key being set
AnswersAtOnce == pc = "idle" /\ pc' = "idle" /\ apiKey # "" /\ result'.sent

\* verifyText returns from a run whose claims are all non-factual
ReturnsWithoutFactual == pc = "loop" /\ pc' = "idle" /\ NoneFactual(allClaims)

\* C9 as stated: a run without claims and a run without FACTUAL claims are
\* each reported through the error field of the result.
C9_EmptyRunsReportError ==
    [][ /\ AnswersAtOnce => result'.error # <<>>
        /\ ReturnsWithoutFactual => result'.error # <<>>
      ]_vars

\* C9: a run without claims is reported through the error field; a run
\* whose claims are all non-factual returns the claims with no verdict and
\* no error field.
C9_OnlyRunWithoutClaimsReportsError ==
    [][ /\ AnswersAtOnce
            => result' = Response(<<>>, <<>>, <<NO_CLAIMS_ERROR>>)
        /\ (result'.sent /\ result'.claims = <<>>)
            => result'.error \in { <<NO_API_KEY_ERROR>>, <<NO_CLAIMS_ERROR>> }
        /\ ReturnsWithoutFactual
            => /\ allClaims # <<>>
               /\ result' = [sent |-> TRUE, claims |-> allClaims,
                             verdicts |-> <<>>, error |-> <<>>]
      ]_vars

\* a run on claims none of which is FACTUAL has returned
C9_RunWithoutFactualReturned ==
    /\ result.sent
    /\ result.claims # <<>>
    /\ NoneFactual(result.claims)
    /\ result.verdicts = <<>>
    /\ result.error = <<>>

\* C10: for a claim that fits a relation template and a content that
\* entails it, detectStance gives SUPPORTS for the claim and CONTRADICTS for
\* the claim with a negation word added.
C10_NegationFlipsStance ==
    ( /\ stStance # ""
      /\ detectSemanticMatch(stClaim, stContent) = "SUPPORTS"
      /\ detectSemanticMatch(stNegated, stContent) = "CONTRADICTS" )
        => stStance = "SUPPORTS" /\ stNegStance = "CONTRADICTS"

\* a number of the claim and a number of the content stand in the same
\* context and differ by more than 1
SharedContextMismatch(claim, content) ==
    \E a \in extractNumbersWithContext(claim), b \in extractNumbersWithContext(content) :
        /\ a.context = b.context
        /\ (a.value - b.value > 1 \/ b.value - a.value > 1)

\* the content holds a support phrase and no contradiction phrase
SupportSignalsOnly(content) ==
    /\ CountMatches(SUPPORT_PATTERNS, content) > 0
    /\ CountMatches(CONTRADICT_PATTERNS, content) = 0

\* at least a fifth of the keywords of the claim occur in the content
PassesRelevanceGate(claim, content) ==
    LET keywords == extractKeywords(claim)
        found == {i \in DOMAIN keywords : ContentIncludes(content, keywords[i])}
    IN Len(keywords) > 0 /\ 5 * Cardinality(found) >= Len(keywords)

\* C11: whenever a number in the claim and a number in the content share
\* the same context and differ by more than 1, detectStance returns
\* CONTRADICTS, even when the keyword signals alone would give SUPPORTS.
C11_NumericMismatchContradicts ==
    ( stStance # "" /\ SharedContextMismatch(stClaim, stContent) )
        => stStance = "CONTRADICTS"

\* C11, for contents that pass the relevance gate: a number of the claim and
\* a number of the content in the same context that differ by more than 1
\* make detectStance return CONTRADICTS, for the claim and for the claim with
\* a negation word added, whatever the keyword signals of the content.
C11_RelevantNumericMismatchContradicts ==
    stStance # "" =>
        /\ ( PassesRelevanceGate(stClaim, stContent)
               /\ SharedContextMismatch(stClaim, stContent) )
             => stStance = "CONTRADICTS"
        /\ ( PassesRelevanceGate(stNegated, stContent)
               /\ SharedContextMismatch(stNegated, stContent) )
             => stNegStance = "CONTRADICTS"

\* a relevant content with a support phrase and a different age was judged
C11_MismatchBesideSupportSignal ==
    /\ stStance = "CONTRADICTS"
    /\ PassesRelevanceGate(stClaim, stContent)
    /\ SharedContextMismatch(stClaim, stContent)
    /\ SupportSignalsOnly(stContent)

\* C12: for the claim 'Trump is 30 years old.' and a content that contains
\* 'Trump is 78' and no support or contradiction keyword, detectStance
\* returns CONTRADICTS.
C12_ScenarioBContradicts ==
    ( /\ stStance # ""
      /\ stClaim = <<"trump", "is", "30", "years", "old", ".">>
      /\ HasPhrase(stContent, <<"trump", "is", "78">>)
      /\ CountMatches(SUPPORT_PATTERNS, stContent) = 0
      /\ CountMatches(CONTRADICT_PATTERNS, stContent) = 0
      /\ detectExplicitVerdict(stContent) = "null" )
        => stStance = "CONTRADICTS"

\* the summed authority of the items of the list that have the stance
RECURSIVE AuthorityOfStance(_, _)
AuthorityOfStance(items, stance) ==
    IF items = <<>> THEN 0
    ELSE (IF Head(items).stance = stance THEN Head(items).authority ELSE 0)
            + AuthorityOfStance(Tail(items), stance)

NoStanceTaken(items) ==
    \A i \in DOMAIN items : items[i].stance = "INCONCLUSIVE"

\* C13: for every evidence list, aggregateEvidence returns consensusScore = 0
\* if and only if the list contains no SUPPORTS item and no CONTRADICTS item.
C13_ZeroScoreIffNoStance ==
    vePc # "items" =>
        (veEvidence.consensusScore.num = 0 <=> NoStanceTaken(veItems))

\* C13, as the code computes the score: consensusScore is 0 exactly when the
\* authorities of the SUPPORTS items and of the CONTRADICTS items have the
\* same sum, which a list with neither stance always has.
C13_ZeroScoreIffEqualWeights ==
    vePc # "items" =>
        /\ veEvidence.consensusScore.num = 0
             <=> AuthorityOfStance(veItems, "SUPPORTS")
                   = AuthorityOfStance(veItems, "CONTRADICTS")
        /\ NoStanceTaken(veItems) => veEvidence.consensusScore.num = 0

\* a list with supporting and contradicting items was given the score 0
C13_BalancedListScoresZero ==
    /\ vePc # "items"
    /\ veEvidence.supporting # <<>>
    /\ veEvidence.contradicting # <<>>
    /\ veEvidence.consensusScore.num = 0

\* calculateAuthority of the pages the evidence items of the harness stand for
AUTHORITY_OF_HOST ==
    [ h \in {HostOfAuthority(a) : a \in AUTHORITIES} |->
        CalculateAuthority([ok |-> TRUE, host |-> h, path |-> "page"]) ]

\* the authority of the evidence item a citation was made of
CitedAuthority(citation) == AUTHORITY_OF_HOST[citation.url.host]

\* the items of the list that selectCitations may cite for the label
CitableItems(items, label) ==
    SelectSeq(items,
              LAMBDA e : CASE label = "SUPPORTED" -> e.stance = "SUPPORTS"
                           [] label = "FALSE" -> e.stance = "CONTRADICTS"
                           [] label = "MISLEADING" -> e.stance # "INCONCLUSIVE"
                           [] OTHER -> TRUE)

\* C14: for every verdict produced by generateVerdict, citations has at most
\* 3 entries and each cited item has a strictly higher authority than the
\* next one.
C14_CitationsStrictlySorted ==
    vePc \in {"verdict", "again"} =>
        /\ Len(veVerdict.citations) <= 3
        /\ \A i \in 1..(Len(veVerdict.citations) - 1) :
               CitedAuthority(veVerdict.citations[i])
                   > CitedAuthority(veVerdict.citations[i + 1])

\* C14, with ties: citations has at most 3 entries, as many as there are
\* citable items up to 3, no cited item has a lower authority than the next
\* one, and no citable item has a higher authority than a cited one unless
\* it is cited too.
C14_CitationsSortedByAuthority ==
    vePc \in {"verdict", "again"} =>
        LET citations == veVerdict.citations
            citable == CitableItems(veItems, veVerdict.verdict)
        IN /\ \A i \in DOMAIN veItems :
                  AUTHORITY_OF_HOST[veItems[i].url.host] = veItems[i].authority
           /\ Len(citations) <= 3
           /\ Len(citations) = Min2(3, Len(citable))
           /\ \A i \in 1..(Len(citations) - 1) :
                  CitedAuthority(citations[i]) >= CitedAuthority(citations[i + 1])
           /\ \A i \in DOMAIN citations :
                  Cardinality({k \in DOMAIN citable :
                                  citable[k].authority > CitedAuthority(citations[i])}) < i

\* a verdict cites three of four citable items, two of them of one authority
C14_ThreeCitedWithTie ==
    /\ vePc = "verdict"
    /\ Len(CitableItems(veItems, veVerdict.verdict)) = 4
    /\ Len(veVerdict.citations) = 3
    /\ CitedAuthority(veVerdict.citations[1]) = CitedAuthority(veVerdict.citations[2])
    /\ CitedAuthority(veVerdict.citations[2]) > CitedAuthority(veVerdict.citations[3])
    /\ veItems[1].authority < veItems[4].authority

\* C19: after a call of generateVerdict the AggregatedEvidence it was given
\* is unchanged, the order of the items of its supporting, contradicting and
\* inconclusive lists included.
C19_EvidenceUnchangedByVerdict ==
    vePc \in {"verdict", "again"} => veAfter = veEvidence

\* C20: two invocations of generateVerdict with equal arguments return equal
\* Verdicts in every field, whatever the wall-clock time of each invocation.
C20_EqualVerdictsAtAnyTime ==
    vePc = "again" => veVerdictLater = veVerdict

\* the items of the sequence at the positions of the set, from position j on
RECURSIVE ItemsAt(_, _, _)
ItemsAt(seq, positions, j) ==
    IF j > Len(seq) THEN <<>>
    ELSE (IF j \in positions THEN <<seq[j]>> ELSE <<>>) \o ItemsAt(seq, positions, j + 1)

\* the results so far, followed by the results of one call whose URL occurs
\* neither in the results so far nor earlier in the call's results
MergedByUrl(all, results) ==
    all \o ItemsAt(results,
                   { j \in DOMAIN results :
                       /\ \A i \in DOMAIN all : all[i].url # results[j].url
                       /\ \A k \in 1..(j - 1) : results[k].url # results[j].url },
                   1)

NoSharedUrl(results) ==
    \A i \in DOMAIN results, j \in DOMAIN results :
        results[i].url = results[j].url => i = j

\* C15: searchForEvidence attempts every query variant of the claim (at
\* most 3 calls) even when an earlier variant fails: each call, failed or
\* not, is followed by the call for the next variant until the last one; a
\* successful call adds its results in order, the first result of each URL
\* only, a failed one adds nothing, and what the last call leaves is what
\* the verdict of the claim is made of.
C15_EveryVariantSearchedAndMerged ==
    [][ ( pc = "search" /\ (pc' # "search" \/ queryIdx' # queryIdx
                              \/ allResults' # allResults \/ verdicts' # verdicts) )
        => \E claim \in {factualClaims[idx]} :
           \E queries \in {generateSearchQueries(claim)} :
           \E succeeded \in {runApiKey = "tvly-valid" /\ outages' = outages} :
           \E merged \in { IF succeeded
                            THEN MergedByUrl(allResults, TavilyResults(queries[queryIdx]))
                            ELSE allResults } :
              /\ Len(queries) <= 3
              /\ queryIdx \in 1..Len(queries)
              /\ NoSharedUrl(merged)
              /\ succeeded =>
                    \A r \in Range(TavilyResults(queries[queryIdx])) :
                        \E i \in DOMAIN merged : merged[i].url = r.url
              /\ IF queryIdx < Len(queries)
                 THEN /\ pc' = "search"
                      /\ queryIdx' = queryIdx + 1
                      /\ allResults' = merged
                      /\ idx' = idx
                      /\ verdicts' = verdicts
                 ELSE /\ pc' = "loop"
                      /\ idx' = idx + 1
                      /\ verdicts' = Append(verdicts, VERDICTS[claim][merged])
      ]_vars

\* the third variant of a claim is about to be searched after a call for
\* an earlier variant failed and another one returned results
C15_SearchedOnAfterFailure ==
    /\ pc = "search"
    /\ queryIdx = 3
    /\ outages = 1
    /\ Len(allResults) = 2
    /\ NoSharedUrl(allResults)

\* the words of a text: its runs of characters other than whitespace, the
\* letters in lower case, the characters that are neither letters, digits
\* nor underscores left out
RECURSIVE WordsOf(_, _)
WordsOf(text, word) ==
    IF text = <<>> THEN (IF word = <<>> THEN <<>> ELSE <<word>>)
    ELSE IF IsWhitespace(Head(text))
         THEN (IF word = <<>> THEN <<>> ELSE <<word>>) \o WordsOf(Tail(text), <<>>)
    ELSE IF IsWordChar(Head(text))
         THEN WordsOf(Tail(text), Append(word, LowerChar(Head(text))))
    ELSE WordsOf(Tail(text), word)

NoTwoEqual(seq) == Cardinality(Range(seq)) = Len(seq)

NewestFirst(verifications) ==
    \A i \in 1..(Len(verifications) - 1) :
        verifications[i].timestamp >= verifications[i + 1].timestamp

\* C17: after any sequence of cacheVerification calls executed one at a
\* time, the stored list has at most 100 entries, is ordered newest first by
\* timestamp, holds no two entries whose claim texts are equal once
\* lower-cased, stripped of punctuation and with whitespace collapsed, and
\* getCachedVerdict returns an entry only if it was stored less than 24 hours
\* before the call.
C17_CacheBoundedOrderedDeduplicated ==
    /\ Len(cache.verifications) <= 100
    /\ NewestFirst(cache.verifications)
    /\ \A i \in DOMAIN cache.verifications : cache.verifications[i].timestamp <= caNow
    /\ NoTwoEqual([i \in DOMAIN cache.verifications |->
                      WordsOf(cache.verifications[i].claim.text, <<>>)])
    /\ (caLookup.asked /\ caLookup.result.found) =>
          /\ \E i \in DOMAIN cache.verifications :
                 cache.verifications[i] = caLookup.result.entry
          /\ caLookup.at - caLookup.result.entry.timestamp < 24 * 60 * 60 * 1000
          /\ WordsOf(caLookup.result.entry.claim.text, <<>>) = WordsOf(caLookup.text, <<>>)

\* the cache is full after more calls than it has room for, and
\* getCachedVerdict has found the entry of a claim under another spelling
C17_FullCacheAnswersOtherSpelling ==
    /\ Len(cache.verifications) = MAX_CACHE_SIZE
    /\ caFresh > MAX_CACHE_SIZE
    /\ caCalls = 2
    /\ caLookup.asked
    /\ caLookup.result.found
    /\ caLookup.result.entry.claim.text # caLookup.text

\* the cache holds an entry of the claim that is younger than its maxAge
HasFreshEntry(claim) ==
    \E v \in Range(getCachedVerifications(cache, now)) : v.claim.id = claim.id

\* C16: before making a search call for a claim the pipeline checks the
\* cache for that claim, and with an entry younger than 24 hours it returns
\* the cached verdict without calling the search provider; after a claim is
\* verified its result is stored in the cache.
C16_CacheCheckedBeforeSearchAndFilled ==
    /\ pc = "search" => ~ HasFreshEntry(factualClaims[idx])
    /\ \A i \in DOMAIN verdicts :
          ~ IsRateLimitPlaceholder(verdicts[i]) =>
              \E k \in DOMAIN cache.verifications :
                  cache.verifications[k].claim.id = verdicts[i].claimId

\* the recorded requests made less than 60 seconds before now
RequestsInWindow == Cardinality({ i \in DOMAIN requests : now - requests[i] < 60 * 1000 })

\* C18: for any sequence of recordRequest calls and clock advances,
\* canMakeRequest() is true exactly when fewer than 10 recorded requests lie
\* within the last 60 seconds, getRemainingRequests() is 10 minus that
\* count and never below 0, and getTimeUntilNextSlot() is 0 exactly when
\* canMakeRequest() is true.
C18_LimiterQueriesCountWindow ==
    /\ canMakeRequest(requests, now) <=> RequestsInWindow < 10
    /\ getRemainingRequests(requests, now)
         = (IF RequestsInWindow >= 10 THEN 0 ELSE 10 - RequestsInWindow)
    /\ getTimeUntilNextSlot(requests, now) = 0 <=> canMakeRequest(requests, now)

\* more requests than the limit lie in the window, an older one has left it
C18_WindowOverfull ==
    /\ RequestsInWindow > 10
    /\ now > 60 * 1000
    /\ ~ canMakeRequest(requests, now)
    /\ getRemainingRequests(requests, now) = 0
    /\ getTimeUntilNextSlot(requests, now) > 0

\* ------------------------------------------------------------------------
\* The claim extractor
\* ------------------------------------------------------------------------
HasOpinionMarker(text) ==
    \E k \in DOMAIN OPINION_MARKERS : TestPhrases(text, OPINION_MARKERS[k])

\* the rules of the cascade, in the order of the claim: condition, label
ClassificationRules(text) ==
    << <<HasOpinionMarker(text), "OPINION">>,
       <<IsPrediction(text), "PREDICTION">>,
       <<IsAmbiguous(text) /\ ~ HasFactualIndicator(text), "AMBIGUOUS">>,
       <<HasFactualIndicator(text), "FACTUAL">>,
       <<isDeclarativeStatement(text), "FACTUAL">>,
       <<TRUE, "AMBIGUOUS">> >>

FirstRuleLabel(text) ==
    LET rules == ClassificationRules(text)
        first == MinOfSet({ k \in DOMAIN rules : rules[k][1] })
    IN rules[first][2]

\* C21: classifyClaim returns the label of the first matching rule in the
\* order opinion marker, prediction marker, ambiguity marker without a
\* factual indicator, factual indicator, declarative sentence, otherwise
\* AMBIGUOUS; so a text with an opinion marker and a factual indicator is
\* OPINION, and a text with an ambiguity marker and a factual indicator but
\* no opinion or prediction marker is FACTUAL.
C21_ClassifiedByFirstMatchingRule ==
    ex.pc = "classified" =>
        /\ ex.label = FirstRuleLabel(ex.text)
        /\ HasOpinionMarker(ex.text) /\ HasFactualIndicator(ex.text)
               => ex.label = "OPINION"
        /\ ( /\ IsAmbiguous(ex.text)
             /\ HasFactualIndicator(ex.text)
             /\ ~ HasOpinionMarker(ex.text)
             /\ ~ IsPrediction(ex.text) ) => ex.label = "FACTUAL"

\* a classified text that carries an opinion marker, an ambiguity marker and
\* a factual indicator
C21_OpinionBesideFactualClassified ==
    /\ ex.pc = "classified"
    /\ ex.text = FACTUAL_PIECE \o <<"and">> \o VAGUE_PIECE \o <<"and">> \o OPINION_PIECE
    /\ ex.label = "OPINION"

\* C22: for a sentence of 50 characters or more, splitIntoAtomicClaims
\* commits to the split only if every fragment between the conjunctions and
\* semicolons has at least 10 characters and a subject+verb shape; if any
\* fragment fails, the sentence is returned whole, so no fragment is dropped.
C22_SplitKeepsEveryFragment ==
    ex.pc = "split" /\ TextLength(ex.text) >= 50 =>
        LET fragments == SplitParts(ex.text)
        IN IF \A k \in DOMAIN fragments : ValidPart(fragments[k])
           THEN ex.parts = fragments
           ELSE ex.parts = <<ex.text>>

\* ------------------------------------------------------------------------
\* calculateAuthority
\* ------------------------------------------------------------------------
\* some entry of the list occurs in the hostname
ContainsEntry(hostname, domains) ==
    \E k \in DOMAIN domains : Includes(hostname, domains[k])

\* the tiers that have an entry occurring in the hostname
TiersContained(hostname) ==
    { t \in DOMAIN AUTHORITY_TIERS : ContainsEntry(hostname, AUTHORITY_TIERS[t].domains) }

TIER_SCORES == <<95, 85, 75, 70, 50>>

\* C23: calculateAuthority returns 0.30 for a URL that cannot be parsed;
\* otherwise 0.25 when the hostname contains a deny-list domain, even if it
\* also matches a tier; otherwise the score of the first tier, in the order
\* 0.95, 0.85, 0.75, 0.70, 0.50, with an entry contained in the hostname;
\* otherwise 0.40.  The result is one of these eight values, within [0, 1].
C23_AuthorityOfFirstMatch ==
    au.pc = "scored" =>
        /\ au.score \in {30, 25, 95, 85, 75, 70, 50, 40}
        /\ au.score >= 0 /\ au.score <= 100
        /\ au.score =
             ( IF ~ au.url.ok THEN 30
               ELSE IF ContainsEntry(au.url.host, LOW_AUTHORITY_DOMAINS) THEN 25
               ELSE IF TiersContained(au.url.host) # {}
                    THEN TIER_SCORES[MinOfSet(TiersContained(au.url.host))]
               ELSE 40 )

\* a scored hostname that contains a deny-list domain and a tier 3 entry
C23_DeniedHostOfListedTier ==
    /\ au.pc = "scored"
    /\ au.url.ok
    /\ ContainsEntry(au.url.host, LOW_AUTHORITY_DOMAINS)
    /\ 3 \in TiersContained(au.url.host)
    /\ au.score = 25

\* the tiers that list the hostname itself
TiersListing(hostname) ==
    { t \in 1..4 : hostname \in Range(AUTHORITY_TIERS[t].domains) }

\* C28: every domain listed in tiers 1 to 4, used as the exact hostname,
\* receives the score of the tier that lists it, and every deny-list domain
\* receives 0.25: no listed domain is shadowed by a substring match against
\* the deny-list or an earlier tier.
C28_ListedDomainScoredByItsList ==
    au.pc = "scored" /\ au.url.ok =>
        /\ \A t \in TiersListing(au.url.host) : au.score = TIER_SCORES[t]
        /\ au.url.host \in Range(LOW_AUTHORITY_DOMAINS) => au.score = 25


\* ------------------------------------------------------------------------
\* detectStance behind the numeric and the semantic check
\* ------------------------------------------------------------------------
\* the content passes the relevance gate and triggers neither a numeric
\* contradiction nor a semantic SUPPORTS
ReachesVerdictPhrasing(claim, content) ==
    /\ PassesRelevanceGate(claim, content)
    /\ detectNumericContradiction(claim, content) # "CONTRADICTS"
    /\ detectSemanticMatch(claim, content) # "SUPPORTS"

\* the result the signal counts s and c stand for
StanceOfCounts(s, c) ==
    IF s - c >= 2 THEN "SUPPORTS"
    ELSE IF s - c <= -2 THEN "CONTRADICTS"
    ELSE IF s > 0 /\ c = 0 THEN "SUPPORTS"
    ELSE IF c > 0 /\ s = 0 THEN "CONTRADICTS"
    ELSE "INCONCLUSIVE"

\* what the claim says detectStance(claim, content) is
StanceOfPhrasing(content) ==
    IF detectExplicitVerdict(content) # "null" THEN detectExplicitVerdict(content)
    ELSE StanceOfCounts(CountMatches(SUPPORT_PATTERNS, content),
                        CountMatches(CONTRADICT_PATTERNS, content))

\* C24: for content that passes the relevance gate and triggers neither a
\* numeric contradiction nor a semantic SUPPORTS, detectStance returns the
\* explicit fact-checker verdict when one is detected, whatever the counts;
\* otherwise, with s SUPPORT patterns and c CONTRADICT patterns matched,
\* SUPPORTS if s - c >= 2, CONTRADICTS if s - c <= -2, SUPPORTS if s > 0 and
\* c = 0, CONTRADICTS if c > 0 and s = 0, and INCONCLUSIVE otherwise.
C24_StanceOfVerdictThenCounts ==
    stStance # "" =>
        /\ ReachesVerdictPhrasing(stClaim, stContent)
               => stStance = StanceOfPhrasing(stContent)
        /\ ReachesVerdictPhrasing(stNegated, stContent)
               => stNegStance = StanceOfPhrasing(stContent)

\* a content labelled false by a fact-checker, whose signal counts alone
\* stand for SUPPORTS, has been judged CONTRADICTS
C24_VerdictAgainstCounts ==
    /\ stStance = "CONTRADICTS"
    /\ ReachesVerdictPhrasing(stClaim, stContent)
    /\ detectExplicitVerdict(stContent) = "CONTRADICTS"
    /\ CountMatches(SUPPORT_PATTERNS, stContent) = 3
    /\ CountMatches(CONTRADICT_PATTERNS, stContent) = 1

\* a rating, verdict or ruling word together with the word false
ExplicitFalseRating(content) ==
    /\ \E i \in DOMAIN content : content[i] \in {"rating", "verdict", "ruling"}
    /\ \E i \in DOMAIN content : content[i] = "false"

\* C29: for content that passes the relevance gate and triggers neither a
\* numeric contradiction nor a semantic SUPPORTS, an explicit false rating
\* in the content makes detectStance return CONTRADICTS, never SUPPORTS,
\* whatever other words the content contains.
C29_FalseRatingContradicts ==
    stStance # "" =>
        /\ ReachesVerdictPhrasing(stClaim, stContent) /\ ExplicitFalseRating(stContent)
               => stStance = "CONTRADICTS"
        /\ ReachesVerdictPhrasing(stNegated, stContent) /\ ExplicitFalseRating(stContent)
               => stNegStance = "CONTRADICTS"

\* the content states, in a context of the claim, a number within 1 of the
\* claim's number
AgreeingNumber(claim, content) ==
    \E claimNum \in extractNumbersWithContext(claim) :
        \E contentNum \in extractNumbersWithContext(content) :
            /\ claimNum.context = contentNum.context
            /\ Abs(claimNum.value - contentNum.value) <= 1

\* C30: detectNumericContradiction returns CONTRADICTS only when the content
\* does not agree with the claim's number: if the content states, in the
\* same context, a number within 1 of the claim's number, the numeric check
\* does not return CONTRADICTS, whatever other numbers the content contains.
C30_AgreeingNumberNeverContradicts ==
    stStance # "" =>
        /\ AgreeingNumber(stClaim, stContent)
               => detectNumericContradiction(stClaim, stContent) # "CONTRADICTS"
        /\ AgreeingNumber(stNegated, stContent)
               => detectNumericContradiction(stNegated, stContent) # "CONTRADICTS"

\* ------------------------------------------------------------------------
\* rankEvidence
\* ------------------------------------------------------------------------
\* the same items, each as often
SameItems(s, t) ==
    /\ Len(s) = Len(t)
    /\ \A e \in Range(s) \cup Range(t) :
           Cardinality({i \in DOMAIN s : s[i] = e}) = Cardinality({i \in DOMAIN t : t[i] = e})

\* the claim's order: a must come before b
MustPrecede(a, b) ==
    \/ a.authority - b.authority > 10
    \/ /\ Abs(a.authority - b.authority) <= 10
       /\ \/ a.publishedDate.has /\ ~ b.publishedDate.has
          \/ /\ a.publishedDate.has
             /\ b.publishedDate.has
             /\ a.publishedDate.day > b.publishedDate.day

\* C25: rankEvidence returns a permutation of its input in which, for every
\* pair of items, the one whose authority is higher by more than 0.1 comes
\* first, and within a 0.1 authority band a dated item comes before an
\* undated one and a newer item before an older one.
C25_RankedPairwise ==
    rk.pc = "ranked" =>
        /\ SameItems(rk.ranked, rk.items)
        /\ \A i, j \in DOMAIN rk.ranked :
               MustPrecede(rk.ranked[i], rk.ranked[j]) => i < j

\* ------------------------------------------------------------------------
\* calculateConfidence
\* ------------------------------------------------------------------------
\* the sum of the authorities of the items of the stance, in hundredths
RECURSIVE WeightOfStance(_, _)
WeightOfStance(items, stance) ==
    IF items = <<>> THEN 0
    ELSE (IF Head(items).stance = stance THEN Head(items).authority ELSE 0)
             + WeightOfStance(Tail(items), stance)

\* the items of the stance with authority 0.8 or more
HighAuthorityOfStance(items, stance) ==
    Cardinality({ i \in DOMAIN items : items[i].stance = stance /\ items[i].authority >= 80 })

\* f * (|consensusScore| + min(0.2, 0.03 * totalSources) + min(0.15, 0.05 * h))
\* in hundredths, as the fraction n / d, for a list with some stance taken
ClaimedConfidence(items, label) ==
    LET support == WeightOfStance(items, "SUPPORTS")
        contradict == WeightOfStance(items, "CONTRADICTS")
        h == HighAuthorityOfStance(items, IF label = "FALSE" THEN "CONTRADICTS" ELSE "SUPPORTS")
        boosts == Min2(20, 3 * Len(items)) + Min2(15, 5 * h)
        n == 100 * Abs(support - contradict) + boosts * (support + contradict)
    IN [ n |-> IF label = "MISLEADING" THEN 7 * n ELSE 10 * n,
         d |-> 10 * (support + contradict) ]

\* c is a hundredth nearest to the fraction clamped to [0.1, 0.9]
NearestToClamped(c, value) ==
    LET n == IF value.n < 10 * value.d THEN 10 * value.d
             ELSE IF value.n > 90 * value.d THEN 90 * value.d
             ELSE value.n
    IN 2 * Abs(c * value.d - n) <= value.d

C27_RecordedWithinLimit == RequestsInWindow <= maxRequests

====
